---- MODULE Spec2Model ----
(***************************************************************************)
(* Resilient API gateway core of the FastMCP templates: the retry engine   *)
(* (retry_with_backoff, three variants) and the TTL cache (SimpleCache,    *)
(* two variants), as they appear in                                        *)
(*   templates/api-client-pattern.py    ("api_client")                     *)
(*   templates/error-handling.py        ("error_handling")                 *)
(*   templates/self-contained-server.py ("self_contained")                 *)
(*                                                                         *)
(* The specifications of the module:                                       *)
(*   RetrySpec  one call of retry_with_backoff at a time, the outcome of   *)
(*              every invocation of the wrapped operation chosen freely;   *)
(*   CacheSpec  the cache store under get / set / invalidate / clear and   *)
(*              the passage of time;                                       *)
(*   CallSpec   the public operations (api_get, api_post, api_put,         *)
(*              api_delete, fetch_from_api, resilient_api_call), one call  *)
(*              after another, through the cache and the retry engine;     *)
(*   BatchSpec  batch_api_requests / batch_api_request: the items of one   *)
(*              asyncio.gather interleaving at their awaits.               *)
(* Delays and times are integers (the code uses floats; every product and  *)
(* difference taken here is exact in both).                                *)
(***************************************************************************)
EXTENDS Integers, Sequences, FiniteSets, TLC

VARIABLES
    \* ---- retry engine (one activation of retry_with_backoff) ----
    caller,            \* the public operation that entered the engine, or "direct"
    engine,            \* which template's retry_with_backoff runs
    max_retries,       \* parameter max_retries
    initial_delay,     \* parameter initial_delay
    exponential_base,  \* parameter exponential_base
    catch_exceptions,  \* parameter catch_exceptions (error_handling only)
    pc,                \* position inside retry_with_backoff
    attempt,           \* loop variable of `for attempt in range(max_retries)`
    delay,             \* local delay
    last_exception,    \* local last_exception
    outcomes,          \* what each invocation of func did, in order
    sleeps,            \* the argument of each asyncio.sleep, in order
    result,            \* how the activation ended: a return or a raise
    \* ---- TTL cache ----
    template,          \* which template's SimpleCache this store is
    ttl,               \* SimpleCache.ttl / Config.CACHE_TTL
    cache,             \* SimpleCache.cache : key -> value
    timestamps,        \* SimpleCache.timestamps : key -> creation time
    now,               \* time.time()
    op,                \* the cache operation that ran last, with its arguments
    ret,               \* what that operation returned
    \* ---- one call of a public operation ----
    opname,            \* the operation called
    endpoint,          \* its endpoint / url argument
    use_cache,         \* its use_cache / invalidate_cache argument
    api_base_url,      \* Config.API_BASE_URL is set
    api_key,           \* Config.API_KEY is set
    cpc,               \* position inside the operation
    cached,            \* local `cached`: what the cache probe returned
    probe,             \* what the probe met: "none", "absent", "expired", "fresh"
    envelope,          \* what the operation returned, or the exception it let out
    path,              \* the stages the call went through, in order
    \* ---- one batch ----
    endpoints,         \* the batch's argument: the endpoints, in input order
    tasks,             \* the coroutine of each item: position, locals, envelope
    order,             \* the items in the order they finished
    bpc,               \* position inside the batch operation
    batch,             \* what the batch operation returned
    \* ---- the client handle ----
    _instance,         \* APIClient._instance: the pooled client, NoClient for None
    clients,           \* every httpx.AsyncClient constructed so far
    resets,            \* how often cleanup has set the handle back to None
    procs              \* the coroutines calling get_client and cleanup

retryVars == <<caller, engine, max_retries, initial_delay, exponential_base,
               catch_exceptions, pc, attempt, delay, last_exception, outcomes,
               sleeps, result>>
cacheVars == <<template, ttl, cache, timestamps, now, op, ret>>
callVars == <<opname, endpoint, use_cache, api_base_url, api_key, cpc, cached,
              probe, envelope, path>>
batchVars == <<endpoints, tasks, order, bpc, batch>>
clientVars == <<_instance, clients, resets, procs>>
vars == <<retryVars, cacheVars, callVars, batchVars, clientVars>>

-----------------------------------------------------------------------------
(* Bounds of the model *)

MaxRetries == 3          \* largest max_retries tried
MaxInitialDelay == 2     \* largest initial_delay tried
MaxExponentialBase == 2  \* largest exponential_base tried
MaxTime == 2             \* the clock runs from 0 to MaxTime
MaxTTL == 2              \* largest cache TTL tried
MaxCallRetries == 2      \* largest Config.MAX_RETRIES of a server whose tools are called
MaxItems == 3            \* longest list of endpoints given to batch_api_request
MaxRetriedItems == 2     \* longest list of endpoints given to batch_api_requests
MaxBatchRetries == 2     \* largest Config.MAX_RETRIES of a server running a batch
MaxTools == 2            \* tool calls taking the client at the same time
MaxCleanups == 1         \* cleanup calls running at the same time
MaxClients == 2          \* clients constructed in one run
MaxCalls == 2            \* tool calls in progress at the same time

(* Defaults written in the code *)

DefaultMaxRetries == 3
DefaultInitialDelay == 1
DefaultExponentialBase == 2

None == "None"

-----------------------------------------------------------------------------
(* Failures of the wrapped operation *)

\* HTTP statuses response.raise_for_status() turns into httpx.HTTPStatusError
Statuses == {302, 400, 404, 429, 499, 500, 503}

\* The exception classes the except clauses tell apart.  "other" is any
\* Exception that is neither of the three (a JSON decoding ValueError, an
\* httpx.RemoteProtocolError, ...).
Timeout(n) == [kind |-> "timeout", status |-> 0, at |-> n]
Network(n) == [kind |-> "network", status |-> 0, at |-> n]
HTTPStatus(s, n) == [kind |-> "http", status |-> s, at |-> n]
Other(n) == [kind |-> "other", status |-> 0, at |-> n]
Ok(n) == [kind |-> "ok", status |-> 200, at |-> n]

\* Everything the n-th invocation of func can do
Outcomes(n) ==
    {Ok(n), Timeout(n), Network(n), Other(n)} \cup {HTTPStatus(s, n) : s \in Statuses}

IsTransport(e) == e.kind \in {"timeout", "network"}

\* last_exception = None, and no result yet
NoException == [kind |-> "None", status |-> 0, at |-> 0]
NoResult == [kind |-> "none", value |-> NoException]

\* `raise last_exception` with last_exception still None
TypeError == [kind |-> "TypeError", status |-> 0, at |-> 0]

AllExceptions == {"timeout", "network", "http", "other"}
TransportOnly == {"timeout", "network"}

\* What one except-chain does with a failure e:
\*   "retry"  caught, remembered in last_exception, the loop goes on
\*   "raise"  leaves retry_with_backoff at once
ClassifyApiClient(e) ==
    IF IsTransport(e) THEN "retry"
    ELSE IF e.kind = "http"
         THEN IF 400 <= e.status /\ e.status < 500 THEN "raise" ELSE "retry"
         ELSE "raise"

ClassifyErrorHandling(e, catch) ==
    IF e.kind \in catch THEN "retry" ELSE "raise"

ClassifySelfContained(e) == "retry"

Classify(e) ==
    CASE engine = "api_client" -> ClassifyApiClient(e)
      [] engine = "error_handling" -> ClassifyErrorHandling(e, catch_exceptions)
      [] engine = "self_contained" -> ClassifySelfContained(e)

-----------------------------------------------------------------------------
(* Who enters the retry engine, and with which arguments *)

Callers == {"direct", "api_get", "api_post", "api_put", "api_delete",
            "fetch_from_api", "resilient_api_call"}

\* Config.MAX_RETRIES = int(os.getenv("MAX_RETRIES", "3")): any integer
ConfigMaxRetries == ((-1)..MaxRetries) \cup {DefaultMaxRetries}

Args(eng, m, d0, b, catch) ==
    [engine |-> eng, max_retries |-> m, initial_delay |-> d0,
     exponential_base |-> b, catch_exceptions |-> catch]

\* retry_with_backoff called on its own, with any arguments its signature takes
DirectArgs ==
    {Args("api_client", m, d0, b, AllExceptions) :
        m \in ConfigMaxRetries, d0 \in 1..MaxInitialDelay, b \in 1..MaxExponentialBase}
    \cup
    {Args("error_handling", m, d0, b, c) :
        m \in ConfigMaxRetries, d0 \in 1..MaxInitialDelay, b \in 1..MaxExponentialBase,
        c \in {AllExceptions, TransportOnly}}
    \cup
    {Args("self_contained", m, DefaultInitialDelay, DefaultExponentialBase, AllExceptions) :
        m \in ConfigMaxRetries}

\* The arguments each public operation passes
CallerArgs(c) ==
    CASE c = "direct" -> DirectArgs
      [] c \in {"api_get", "api_post"} ->
            {Args("api_client", m, DefaultInitialDelay, DefaultExponentialBase,
                  AllExceptions) : m \in ConfigMaxRetries}
      [] c \in {"api_put", "api_delete"} ->
            {Args("api_client", DefaultMaxRetries, DefaultInitialDelay,
                  DefaultExponentialBase, AllExceptions)}
      [] c = "fetch_from_api" ->
            {Args("self_contained", m, DefaultInitialDelay, DefaultExponentialBase,
                  AllExceptions) : m \in ConfigMaxRetries}
      [] c = "resilient_api_call" ->
            {Args("error_handling", DefaultMaxRetries, DefaultInitialDelay,
                  DefaultExponentialBase, TransportOnly)}

-----------------------------------------------------------------------------
(* retry_with_backoff *)

\* `for attempt in range(max_retries)`: with the loop variable about to become
\* a, the body runs again or the loop is over
\* (variant: an off-by-one loop bound, range(max_retries + 1))
MutForNext(a, m) == IF a <= m THEN "attempt" ELSE "after_loop"
\* (variant: the body runs once before the bound is looked at)
MutForNextOnce(a, m) == IF a < m \/ a = 0 THEN "attempt" ELSE "after_loop"
ForNext(a, m) == IF a < m THEN "attempt" ELSE "after_loop"

\* The call: the locals are set and the for loop is entered, or skipped at
\* once when range(max_retries) is empty.
Enter(c, a) ==
    /\ pc = "idle"
    /\ caller' = c
    /\ engine' = a.engine
    /\ max_retries' = a.max_retries
    /\ initial_delay' = a.initial_delay
    /\ exponential_base' = a.exponential_base
    /\ catch_exceptions' = a.catch_exceptions
    /\ delay' = a.initial_delay
    /\ last_exception' = NoException
    /\ attempt' = 0
    /\ outcomes' = <<>>
    /\ sleeps' = <<>>
    /\ result' = NoResult
    /\ pc' = ForNext(0, a.max_retries)
    /\ UNCHANGED cacheVars

\* `return await func()`: the operation succeeds
InvokeOk ==
    /\ pc = "attempt"
    /\ LET o == Ok(Len(outcomes) + 1) IN
        /\ outcomes' = Append(outcomes, o)
        /\ result' = [kind |-> "return", value |-> o]
        /\ pc' = "done"
    /\ UNCHANGED <<caller, engine, max_retries, initial_delay, exponential_base,
                   catch_exceptions, attempt, delay, last_exception, sleeps>>
    /\ UNCHANGED cacheVars

\* `if attempt < max_retries - 1:` guards the sleep
SleepsAfter == attempt < max_retries - 1

\* `last_exception = e`
\* (variant: only the first failure is remembered)
MutRemember(e) == IF last_exception = NoException THEN e ELSE last_exception
Remember(e) == e

\* `await func()` raises e and an except clause catches it without re-raising
InvokeCaught(e) ==
    /\ pc = "attempt"
    /\ e.kind # "ok"
    /\ Classify(e) = "retry"
    /\ outcomes' = Append(outcomes, e)
    /\ last_exception' = Remember(e)
    /\ IF SleepsAfter
         THEN pc' = "sleep" /\ attempt' = attempt
         ELSE pc' = ForNext(attempt + 1, max_retries) /\ attempt' = attempt + 1
    /\ UNCHANGED <<caller, engine, max_retries, initial_delay, exponential_base,
                   catch_exceptions, delay, sleeps, result>>
    /\ UNCHANGED cacheVars

\* `await func()` raises e and e leaves retry_with_backoff: no except clause
\* matches it, or the clause re-raises it (a 4xx in api-client-pattern.py)
InvokeRaised(e) ==
    /\ pc = "attempt"
    /\ e.kind # "ok"
    /\ Classify(e) = "raise"
    /\ outcomes' = Append(outcomes, e)
    /\ result' = [kind |-> "raise", value |-> e]
    /\ pc' = "done"
    /\ UNCHANGED <<caller, engine, max_retries, initial_delay, exponential_base,
                   catch_exceptions, attempt, delay, last_exception, sleeps>>
    /\ UNCHANGED cacheVars

\* The delay after a sleep: `delay *= exponential_base`
\* (variant: linear instead of exponential backoff, `delay += exponential_base`)
MutNextDelay == delay + exponential_base
NextDelay == delay * exponential_base

\* `await asyncio.sleep(delay); delay *= exponential_base`, then the next
\* iteration of the for loop
Sleep ==
    /\ pc = "sleep"
    /\ sleeps' = Append(sleeps, delay)
    /\ delay' = NextDelay
    /\ attempt' = attempt + 1
    /\ pc' = ForNext(attempt + 1, max_retries)
    /\ UNCHANGED <<caller, engine, max_retries, initial_delay, exponential_base,
                   catch_exceptions, last_exception, outcomes, result>>
    /\ UNCHANGED cacheVars

\* What `raise last_exception` after the loop raises
Surfaced == IF last_exception = NoException THEN TypeError ELSE last_exception

\* The loop is over: `raise last_exception`
RaiseLast ==
    /\ pc = "after_loop"
    /\ result' = [kind |-> "raise", value |-> Surfaced]
    /\ pc' = "done"
    /\ UNCHANGED <<caller, engine, max_retries, initial_delay, exponential_base,
                   catch_exceptions, attempt, delay, last_exception, outcomes, sleeps>>
    /\ UNCHANGED cacheVars

Step == InvokeOk \/ Sleep \/ RaiseLast
            \/ \E e \in Outcomes(Len(outcomes) + 1) : InvokeCaught(e) \/ InvokeRaised(e)

\* The engine on its own: no public operation is in progress around it
RetryNext ==
    \/ \E c \in Callers : \E a \in CallerArgs(c) : Enter(c, a) /\ UNCHANGED <<callVars, batchVars, clientVars>>
    \/ InvokeOk /\ UNCHANGED <<callVars, batchVars, clientVars>>
    \/ \E e \in Outcomes(Len(outcomes) + 1) : InvokeCaught(e) /\ UNCHANGED <<callVars, batchVars, clientVars>>
    \/ \E e \in Outcomes(Len(outcomes) + 1) : InvokeRaised(e) /\ UNCHANGED <<callVars, batchVars, clientVars>>
    \/ Sleep /\ UNCHANGED <<callVars, batchVars, clientVars>>
    \/ RaiseLast /\ UNCHANGED <<callVars, batchVars, clientVars>>

RetryIdle ==
    /\ caller = None
    /\ engine = None
    /\ max_retries = 0
    /\ initial_delay = 0
    /\ exponential_base = 0
    /\ catch_exceptions = {}
    /\ pc = "idle"
    /\ attempt = 0
    /\ delay = 0
    /\ last_exception = NoException
    /\ outcomes = <<>>
    /\ sleeps = <<>>
    /\ result = NoResult

\* No cache operation has run yet
NoOp == [name |-> "none", key |-> None, pattern |-> None, value |-> None, before |-> 0]

CacheIdle ==
    /\ template = "api_client"
    /\ ttl = 0
    /\ cache = <<>>
    /\ timestamps = <<>>
    /\ now = 0
    /\ op = NoOp
    /\ ret = None

\* No envelope yet.  An envelope is a dict: `keys` are the keys it has, the
\* other fields the values under them (None where the key is absent);
\* `raised` is the exception that left the operation instead of a dict.
NoEnvelope ==
    [keys |-> {}, success |-> FALSE, data |-> None, from_cache |-> FALSE,
     error |-> None, code |-> None, message |-> None, details |-> {},
     endpoint |-> None, raised |-> None]

\* No batch result yet
NoBatch ==
    [total |-> 0, successful |-> 0, failed |-> 0, results |-> <<>>, raised |-> None]

\* No batch operation has been called
BatchIdle ==
    /\ endpoints = <<>>
    /\ tasks = <<>>
    /\ order = <<>>
    /\ bpc = "idle"
    /\ batch = NoBatch

\* APIClient._instance = None
NoClient == 0

\* No client has been constructed, nothing calls get_client or cleanup
ClientIdle ==
    /\ _instance = NoClient
    /\ clients = <<>>
    /\ resets = 0
    /\ procs = <<>>

\* No public operation has been called
CallIdle ==
    /\ opname = None
    /\ endpoint = None
    /\ use_cache = FALSE
    /\ api_base_url = TRUE
    /\ api_key = TRUE
    /\ cpc = "idle"
    /\ cached = None
    /\ probe = "none"
    /\ envelope = NoEnvelope
    /\ path = <<>>

RetryInit == RetryIdle /\ CacheIdle /\ CallIdle /\ BatchIdle /\ ClientIdle

RetrySpec == RetryInit /\ [][RetryNext]_vars

\* The engine under the scheduling the event loop gives it: a started
\* activation is always resumed (the awaited operation and the sleep complete)
RetryFairSpec == RetrySpec /\ WF_vars(Step /\ UNCHANGED <<callVars, batchVars, clientVars>>)

-----------------------------------------------------------------------------
(* Properties of the retry engine *)

Last(s) == s[Len(s)]
Front(s) == SubSeq(s, 1, Len(s) - 1)

\* Every invocation in s failed with a timeout or a network error
AllTransport(s) == \A i \in 1..Len(s) : IsTransport(s[i])

\* The operation failed with timeouts / network errors k times and then succeeded
FailsThenSucceeds(k) ==
    /\ Len(outcomes) = k + 1
    /\ Last(outcomes).kind = "ok"
    /\ AllTransport(Front(outcomes))

RECURSIVE Pow(_, _)
Pow(b, n) == IF n = 0 THEN 1 ELSE b * Pow(b, n - 1)

RECURSIVE Sum(_)
Sum(s) == IF s = <<>> THEN 0 ELSE Last(s) + Sum(Front(s))

RECURSIVE Geometric(_, _)
\* base^0 + ... + base^(n-1)
Geometric(b, n) == IF n <= 0 THEN 0 ELSE Pow(b, n - 1) + Geometric(b, n - 1)

IsClientError(e) == e.kind = "http" /\ 400 <= e.status /\ e.status < 500

\* C1: with max_retries = m >= 1 and an operation that fails with a timeout
\* or a network error exactly k times and then succeeds: while fewer than m
\* such failures have happened the engine goes on to another invocation; if
\* m >= k+1 the call returns the success value after exactly k+1 invocations;
\* if m <= k the call raises after exactly m invocations, no more.
C1_RetryBound ==
    (pc # "idle" /\ max_retries >= 1) =>
        /\ (AllTransport(outcomes) /\ Len(outcomes) < max_retries) =>
                pc \in {"attempt", "sleep"}
        /\ (AllTransport(outcomes) /\ Len(outcomes) >= max_retries) =>
                /\ Len(outcomes) = max_retries
                /\ pc \in {"after_loop", "done"}
                /\ pc = "done" =>
                      result.kind = "raise" /\ IsTransport(result.value)
        /\ \A k \in 0..Len(outcomes) :
              FailsThenSucceeds(k) =>
                /\ k + 1 <= max_retries
                /\ pc = "done"
                /\ result = [kind |-> "return", value |-> Last(outcomes)]

\* Two failures and then the success, with max_retries = 3
C1_Witness ==
    /\ pc = "done"
    /\ max_retries = 3
    /\ FailsThenSucceeds(2)
    /\ result.kind = "return"

\* C2: an operation failing with an HTTP status in [400,500) is invoked
\* exactly once whatever max_retries is: the error is raised at once, without
\* a sleep, in the engine of every public operation.
C2_TerminalShortCircuit ==
    (caller \in Callers \ {"direct"} /\ Len(outcomes) >= 1 /\ IsClientError(outcomes[1])) =>
        /\ Len(outcomes) = 1
        /\ sleeps = <<>>
        /\ pc \notin {"sleep", "attempt"}
        /\ pc = "done" => result = [kind |-> "raise", value |-> outcomes[1]]

\* A failure the claim calls retryable: an HTTP status >= 500, or a failure
\* that carries no HTTP status (a timeout, a network error)
IsServerOrTransport(e) == IsTransport(e) \/ (e.kind = "http" /\ e.status >= 500)

\* C3: a failure with an HTTP status >= 500, or with no HTTP status at all,
\* is retried while attempts remain (attempt index < max_retries - 1): the
\* engine sleeps and invokes the operation again instead of surfacing it, in
\* the engine of every public operation, resilient_api_call included.
C3_ServerErrorsRetried ==
    (/\ caller \in Callers \ {"direct"}
     /\ Len(outcomes) >= 1
     /\ IsServerOrTransport(Last(outcomes))
     /\ Len(outcomes) - 1 < max_retries - 1) =>
        pc \in {"sleep", "attempt"}

\* C4: whatever the invocations do, the operation is invoked at most
\* max_retries times, and every activation ends: it returns or raises.
C4_BoundedAndTerminates ==
    /\ [](Len(outcomes) <= IF max_retries > 0 THEN max_retries ELSE 0)
    /\ [](pc = "done" => result.kind \in {"return", "raise"})
    /\ (pc \in {"attempt", "sleep", "after_loop"}) ~> (pc = "done")

\* Every attempt of a call with max_retries = 3 failed, and the call is over
C4_Witness ==
    /\ pc = "done"
    /\ max_retries = 3
    /\ Len(outcomes) = 3
    /\ result.kind = "raise"

\* C5: when the engine gives up, what it raises is the failure of the last
\* invocation, and a call whose last invocation failed never returns normally.
C5_LastErrorSurfaced ==
    (pc = "done" /\ Len(outcomes) >= 1 /\ Last(outcomes).kind # "ok") =>
        result = [kind |-> "raise", value |-> Last(outcomes)]

\* Retries exhausted after failures that differ from one attempt to the next
C5_Witness ==
    /\ pc = "done"
    /\ Len(outcomes) = 3
    /\ outcomes[1].kind = "timeout"
    /\ outcomes[3].kind = "http"
    /\ result.kind = "raise"
    /\ result.value.at = 3

\* C6: the i-th sleep lasts initial_delay * exponential_base^(i-1); one sleep
\* follows every failed attempt but the last one made, none follows a success
\* or the final failure; so max_retries failed attempts are suspended for
\* initial_delay * (base^0 + ... + base^(max_retries-2)) in all, and with
\* max_retries = 3, initial_delay = 1, base = 2, two network failures and a
\* success the suspension is 3 over 3 attempts.
C6_BackoffSchedule ==
    /\ \A i \in 1..Len(sleeps) :
          sleeps[i] = initial_delay * Pow(exponential_base, i - 1)
    /\ pc = "attempt" => Len(sleeps) = Len(outcomes)
    /\ (pc \in {"sleep", "after_loop", "done"} /\ Len(outcomes) >= 1) =>
          Len(sleeps) = Len(outcomes) - 1
    /\ Len(outcomes) = 0 => sleeps = <<>>
    /\ (pc \in {"after_loop", "done"} /\ max_retries >= 1
            /\ Len(outcomes) = max_retries) =>
          Sum(sleeps) = initial_delay * Geometric(exponential_base, max_retries - 1)
    /\ (/\ max_retries = 3 /\ initial_delay = 1 /\ exponential_base = 2
        /\ Len(outcomes) = 3
        /\ outcomes[1].kind = "network" /\ outcomes[2].kind = "network"
        /\ outcomes[3].kind = "ok") =>
          (pc = "done" /\ Sum(sleeps) = 3 /\ result.kind = "return")

\* The scenario: 1 s and 2 s of suspension, then the third attempt succeeds
C6_Witness ==
    /\ pc = "done"
    /\ engine = "api_client"
    /\ max_retries = 3 /\ initial_delay = 1 /\ exponential_base = 2
    /\ Len(outcomes) = 3
    /\ outcomes[1].kind = "network" /\ outcomes[2].kind = "network"
    /\ outcomes[3].kind = "ok"
    /\ sleeps = <<1, 2>>

-----------------------------------------------------------------------------
(* SimpleCache *)

\* Cache keys in use: "{METHOD}:{path}"
Keys == {"GET:/users/1", "GET:/superusers/1", "GET:/posts/7"}

\* Decoded response bodies; "{}" is an empty (falsy) one
Values == {"Alice", "{}"}

\* Arguments given to invalidate / clear_cache; None is "no pattern"
Patterns == {None, "", "users", "posts", "GET"}

\* Config.CACHE_TTL = int(os.getenv("CACHE_TTL", "300")): any integer
ConfigCacheTTL == 0..MaxTTL

Size == Cardinality(DOMAIN cache)
Ran(name, k, p) ==
    [name |-> name, key |-> k, pattern |-> p, value |-> None, before |-> Size]
RanSet(k, v) == [Ran("set", k, None) EXCEPT !.value = v]

\* Python's `pattern in k` on strings
Contains(pattern, k) ==
    \E i \in 0..(Len(k) - Len(pattern)) : SubSeq(k, i + 1, i + Len(pattern)) = pattern

\* Python's truth value of an Optional[str]
Truthy(pattern) == pattern # None /\ pattern # ""

\* `del d[key]` for every key of ks
Del(d, ks) == [k \in DOMAIN d \ ks |-> d[k]]

\* `d[key] = v`
\* (variant: the first write wins, `d.setdefault(key, v)`)
MutPut(d, key, v) ==
    [k \in DOMAIN d \cup {key} |-> IF k \in DOMAIN d THEN d[k] ELSE v]
Put(d, key, v) == [k \in DOMAIN d \cup {key} |-> IF k = key THEN v ELSE d[k]]

\* `time.time() - self.timestamps[key] < self.ttl`
\* (variants: the boundary counted as fresh; the comparison inverted)
MutFreshInclusive(key) == now - timestamps[key] <= ttl
MutFreshInverted(key) == now - timestamps[key] > ttl
Fresh(key) == now - timestamps[key] < ttl

\* The `cache_statistics` resource: what it reports
cache_statistics ==
    [total_entries |-> Cardinality(DOMAIN cache), ttl_seconds |-> ttl,
     entries |-> DOMAIN cache]

\* SimpleCache.get: the value returned
GetReturn(key) ==
    IF key \in DOMAIN cache /\ Fresh(key) THEN cache[key] ELSE None

\* SimpleCache.get: the store it leaves
\* (variant: the second `del` missing, the creation time left behind)
MutGetStoreCacheOnly(key) ==
    IF key \in DOMAIN cache /\ ~Fresh(key)
    THEN [cache |-> Del(cache, {key}), timestamps |-> timestamps]
    ELSE [cache |-> cache, timestamps |-> timestamps]
\* (variant: a sweep, every expired entry evicted by any get)
MutGetStoreSweep(key) ==
    [cache |-> Del(cache, {k \in DOMAIN cache : ~Fresh(k)}),
     timestamps |-> Del(timestamps, {k \in DOMAIN cache : ~Fresh(k)})]
GetStore(key) ==
    IF key \in DOMAIN cache /\ ~Fresh(key)
    THEN [cache |-> Del(cache, {key}), timestamps |-> Del(timestamps, {key})]
    ELSE [cache |-> cache, timestamps |-> timestamps]

Get(key) ==
    /\ ret' = GetReturn(key)
    /\ cache' = GetStore(key).cache
    /\ timestamps' = GetStore(key).timestamps
    /\ op' = Ran("get", key, None)
    /\ UNCHANGED <<template, ttl, now>>
    /\ UNCHANGED retryVars

\* SimpleCache.set
Set(key, value) ==
    /\ cache' = Put(cache, key, value)
    /\ timestamps' = Put(timestamps, key, now)
    /\ ret' = None
    /\ op' = RanSet(key, value)
    /\ UNCHANGED <<template, ttl, now>>
    /\ UNCHANGED retryVars

\* `keys_to_delete = [k for k in self.cache if pattern in k]`
\* (variant: prefix match, `k.startswith(pattern)`)
\* (variant: whole path segments only, delimited by "/" or ":")
MutKeysToDeleteSegment(pattern) ==
    {k \in DOMAIN cache :
        \E i \in 0..(Len(k) - Len(pattern)) :
            /\ SubSeq(k, i + 1, i + Len(pattern)) = pattern
            /\ i = 0 \/ SubSeq(k, i, i) \in {"/", ":"}
            /\ \/ i + Len(pattern) = Len(k)
               \/ SubSeq(k, i + Len(pattern) + 1, i + Len(pattern) + 1) \in {"/", ":"}}
MutKeysToDelete(pattern) ==
    {k \in DOMAIN cache : SubSeq(k, 1, Len(pattern)) = pattern}
keys_to_delete(pattern) == {k \in DOMAIN cache : Contains(pattern, k)}

\* `self.cache.clear(); self.timestamps.clear()`
\* (variant: the clearing forgotten)
MutCleared == [cache |-> cache, timestamps |-> timestamps]
Cleared == [cache |-> <<>>, timestamps |-> <<>>]

\* SimpleCache.invalidate: the store it leaves
InvalidateStore(pattern) ==
    IF Truthy(pattern)
    THEN [cache |-> Del(cache, keys_to_delete(pattern)),
          timestamps |-> Del(timestamps, keys_to_delete(pattern))]
    ELSE Cleared

\* SimpleCache.invalidate (api-client-pattern.py only)
Invalidate(pattern) ==
    /\ template = "api_client"
    /\ cache' = InvalidateStore(pattern).cache
    /\ timestamps' = InvalidateStore(pattern).timestamps
    /\ ret' = None
    /\ op' = Ran("invalidate", None, pattern)
    /\ UNCHANGED <<template, ttl, now>>
    /\ UNCHANGED retryVars

\* The clear_cache tool: cache.invalidate(pattern), then a success envelope
clear_cache(pattern) ==
    /\ template = "api_client"
    /\ cache' = InvalidateStore(pattern).cache
    /\ timestamps' = InvalidateStore(pattern).timestamps
    /\ ret' = "success"
    /\ op' = Ran("clear_cache", None, pattern)
    /\ UNCHANGED <<template, ttl, now>>
    /\ UNCHANGED retryVars

\* SimpleCache.clear (self-contained-server.py only)
Clear ==
    /\ template = "self_contained"
    /\ cache' = Cleared.cache
    /\ timestamps' = Cleared.timestamps
    /\ ret' = None
    /\ op' = Ran("clear", None, None)
    /\ UNCHANGED <<template, ttl, now>>
    /\ UNCHANGED retryVars

\* Time passes
Tick ==
    /\ now < MaxTime
    /\ now' = now + 1
    /\ op' = Ran("tick", None, None)
    /\ ret' = None
    /\ UNCHANGED <<template, ttl, cache, timestamps>>
    /\ UNCHANGED retryVars

CacheNext ==
    \/ \E k \in Keys : Get(k) /\ UNCHANGED <<callVars, batchVars, clientVars>>
    \/ \E k \in Keys : \E v \in Values : Set(k, v) /\ UNCHANGED <<callVars, batchVars, clientVars>>
    \/ \E p \in Patterns : Invalidate(p) /\ UNCHANGED <<callVars, batchVars, clientVars>>
    \/ \E p \in Patterns : clear_cache(p) /\ UNCHANGED <<callVars, batchVars, clientVars>>
    \/ Clear /\ UNCHANGED <<callVars, batchVars, clientVars>>
    \/ Tick /\ UNCHANGED <<callVars, batchVars, clientVars>>

\* A fresh process: an empty store, under either template and any TTL
CacheInit ==
    /\ template \in {"api_client", "self_contained"}
    /\ ttl \in ConfigCacheTTL
    /\ cache = <<>>
    /\ timestamps = <<>>
    /\ now = 0
    /\ op = NoOp
    /\ ret = None
    /\ RetryIdle
    /\ CallIdle
    /\ BatchIdle
    /\ ClientIdle

CacheSpec == CacheInit /\ [][CacheNext]_vars

-----------------------------------------------------------------------------
(* Properties of the cache *)

\* The key a get step looked up, fresh in the store it found
FreshBefore(key) == key \in DOMAIN cache /\ now - timestamps[key] < ttl
ExpiredBefore(key) == key \in DOMAIN cache /\ now - timestamps[key] >= ttl

\* C7: a get of a key whose entry is younger than the TTL returns exactly the
\* stored value and leaves the store unchanged.
C7_CacheFreshness ==
    [][(op'.name = "get" /\ FreshBefore(op'.key)) =>
          /\ ret' = cache[op'.key]
          /\ cache' = cache
          /\ timestamps' = timestamps]_vars

\* A falsy value read back after time has passed, still within the TTL
C7_Witness ==
    /\ op.name = "get"
    /\ op.key \in DOMAIN cache
    /\ timestamps[op.key] < now
    /\ now - timestamps[op.key] < ttl
    /\ ret = "{}"
    /\ ret = cache[op.key]

\* C8: a get of a key whose entry is as old as the TTL or older (the
\* boundary included) returns absent and removes that entry: the entry count
\* goes down by exactly one and every other entry is untouched.
C8_CacheExpiry ==
    [][(op'.name = "get" /\ ExpiredBefore(op'.key)) =>
          /\ ret' = None
          /\ op'.key \notin DOMAIN cache'
          /\ op'.key \notin DOMAIN timestamps'
          /\ Cardinality(DOMAIN cache') = Cardinality(DOMAIN cache) - 1
          /\ \A k \in DOMAIN cache \ {op'.key} :
                /\ k \in DOMAIN cache' /\ cache'[k] = cache[k]
                /\ k \in DOMAIN timestamps' /\ timestamps'[k] = timestamps[k]]_vars

\* A get has just evicted one of three entries
C8_Witness ==
    /\ op.name = "get"
    /\ ret = None
    /\ op.before = 3
    /\ Size = 2
    /\ op.key \notin DOMAIN cache

\* C9: invalidate(pattern) with a pattern removes exactly the keys that
\* contain the pattern as a substring: no remaining key contains it, every
\* key not containing it keeps its value and creation time, and the entry
\* count goes down by exactly the number of matching keys.
C9_InvalidationPrecision ==
    [][(op'.name \in {"invalidate", "clear_cache"} /\ op'.pattern # None) =>
          LET p == op'.pattern
              matching == {k \in DOMAIN cache : Contains(p, k)}
          IN  /\ \A k \in DOMAIN cache' : ~Contains(p, k)
              /\ DOMAIN cache' = DOMAIN timestamps'
              /\ DOMAIN cache' \subseteq DOMAIN cache
              /\ \A k \in DOMAIN cache \ matching :
                    /\ k \in DOMAIN cache'
                    /\ cache'[k] = cache[k]
                    /\ timestamps'[k] = timestamps[k]
              /\ Cardinality(DOMAIN cache') =
                    Cardinality(DOMAIN cache) - Cardinality(matching)]_vars

\* invalidate("users") took two of three entries and left the third
C9_Witness ==
    /\ op.name = "invalidate"
    /\ op.pattern = "users"
    /\ op.before = 3
    /\ DOMAIN cache = {"GET:/posts/7"}

\* C10: invalidate with no pattern, clear_cache with no pattern and
\* SimpleCache.clear empty the store: the entry count is 0 and get of every
\* key returns absent.
C10_ClearAll ==
    (\/ op.name \in {"invalidate", "clear_cache"} /\ op.pattern = None
     \/ op.name = "clear") =>
        /\ Size = 0
        /\ cache = <<>>
        /\ timestamps = <<>>
        /\ \A k \in Keys : GetReturn(k) = None

\* clear_cache() has just emptied a store of three entries
C10_Witness ==
    /\ op.name = "clear_cache"
    /\ op.pattern = None
    /\ op.before = 3
    /\ Size = 0

\* C29: the passage of time alone never changes the store or what
\* cache_statistics reports; an entry, expired or not, leaves the store only
\* by a get of that key that finds it expired, by an invalidation that
\* matches it or by a clearing, and changes only by a set of that key.
C29_LazyExpiry ==
    [][/\ now' # now =>
            /\ cache' = cache
            /\ timestamps' = timestamps
            /\ cache_statistics' = cache_statistics
       /\ \A k \in DOMAIN cache :
            (k \notin DOMAIN cache' \/ k \notin DOMAIN timestamps') =>
                \/ op'.name = "get" /\ op'.key = k /\ ExpiredBefore(k)
                \/ /\ op'.name \in {"invalidate", "clear_cache"}
                   /\ ~Truthy(op'.pattern) \/ Contains(op'.pattern, k)
                \/ op'.name = "clear"
       /\ \A k \in DOMAIN cache \cap DOMAIN cache' :
            (cache'[k] # cache[k] \/ timestamps'[k] # timestamps[k]) =>
                op'.name = "set" /\ op'.key = k]_vars

\* Time has just passed and three entries are counted, one of them expired
C29_Witness ==
    /\ op.name = "tick"
    /\ ttl > 0
    /\ cache_statistics.total_entries = 3
    /\ \E k \in DOMAIN cache : now - timestamps[k] >= ttl
    /\ \E k \in DOMAIN cache : now - timestamps[k] < ttl

\* The pattern occurs in the key between some two positions
Occurs(pattern, k) ==
    \E i \in 1..Len(k) : \E j \in i..Len(k) : SubSeq(k, i, j) = pattern

\* C30: invalidation matches the pattern anywhere in the whole key, not as a
\* prefix or a path segment: every key in which the pattern occurs is
\* removed, so "users" removes GET:/superusers/1 as well as GET:/users/1,
\* and "GET" removes every key of that method.
C30_SubstringAnywhere ==
    [][(op'.name \in {"invalidate", "clear_cache"} /\ Truthy(op'.pattern)) =>
          /\ \A k \in DOMAIN cache :
                Occurs(op'.pattern, k) =>
                    k \notin DOMAIN cache' /\ k \notin DOMAIN timestamps'
          /\ op'.pattern = "users" =>
                /\ "GET:/superusers/1" \notin DOMAIN cache'
                /\ "GET:/users/1" \notin DOMAIN cache'
          /\ op'.pattern = "GET" =>
                \A k \in DOMAIN cache' : SubSeq(k, 1, 3) # "GET"]_vars

\* invalidate("GET") has just removed all three entries
C30_Witness ==
    /\ op.name = "invalidate"
    /\ op.pattern = "GET"
    /\ op.before = 3
    /\ Size = 0

\* C11: set(key, value) stores the value with the current time and overwrites
\* any prior entry of that key: the store holds one entry for the key, with
\* the value and the time of this set (the TTL clock restarts), the entry
\* count grows only when the key was new, and other keys are unchanged.
C11_SetOverwrites ==
    [][op'.name = "set" =>
          LET k == op'.key IN
          /\ DOMAIN cache' = DOMAIN cache \cup {k}
          /\ DOMAIN timestamps' = DOMAIN cache'
          /\ cache'[k] = op'.value
          /\ timestamps'[k] = now
          /\ Cardinality(DOMAIN cache') =
                Cardinality(DOMAIN cache) + (IF k \in DOMAIN cache THEN 0 ELSE 1)
          /\ \A j \in DOMAIN cache \ {k} :
                cache'[j] = cache[j] /\ timestamps'[j] = timestamps[j]]_vars

\* A set at a later time has just replaced an entry among two
C11_Witness ==
    /\ op.name = "set"
    /\ op.before = 2
    /\ Size = 2
    /\ now = 2
    /\ timestamps[op.key] = 2
    /\ cache[op.key] = op.value
    /\ \E j \in DOMAIN cache : timestamps[j] = 0

-----------------------------------------------------------------------------
(* The public operations: what they return *)

Operations == {"api_get", "api_post", "api_put", "api_delete",
               "fetch_from_api", "resilient_api_call"}
ReadOperations == {"api_get", "fetch_from_api"}
WriteOperations == {"api_post", "api_put", "api_delete"}

\* The file each operation lives in
TemplateOf(o) ==
    CASE o = "fetch_from_api" -> "self_contained"
      [] o = "resilient_api_call" -> "error_handling"
      [] OTHER -> "api_client"

\* cache_key = f"GET:{endpoint}" / f"api:{endpoint}"
cache_key(o, ep) == IF o = "fetch_from_api" THEN "api:" \o ep ELSE "GET:" \o ep

\* Python's truth value of a decoded payload: None and the empty object are false
TruthyPayload(v) == v # None /\ v # "{}" /\ v # ""

\* str(e), and e.response.text
Str(e) ==
    CASE e.kind = "http" -> "status error " \o ToString(e.status)
      [] e.kind = "TypeError" -> "exceptions must derive from BaseException"
      [] OTHER -> e.kind \o " failure"
ResponseText(e) == "body " \o ToString(e.status)

\* f"HTTP {e.response.status_code}"
HTTPText(e) == "HTTP " \o ToString(e.status)

\* The except clauses after each operation's try, in the order written
Handlers(o) ==
    CASE o \in {"api_get", "api_post", "fetch_from_api"} -> <<"http", "Exception">>
      [] o \in {"api_put", "api_delete"} -> <<"Exception">>
      [] o = "resilient_api_call" -> <<"timeout", "network", "http", "Exception">>

\* `except <clause>` catches e
\* (variant: `except Exception` catching nothing the other clauses do not name)
MutMatches(clause, e) == clause = e.kind
Matches(clause, e) == clause = "Exception" \/ clause = e.kind

\* The first clause that catches e, "uncaught" when none does
Clause(o, e) ==
    LET h == Handlers(o)
        hits == {i \in 1..Len(h) : Matches(h[i], e)}
    IN  IF hits = {} THEN "uncaught"
        ELSE h[CHOOSE i \in hits : \A j \in hits : i <= j]

\* A dict with these keys
Envelope(keys, success) == [NoEnvelope EXCEPT !.keys = keys, !.success = success]

\* An exception nobody caught leaves the operation
Raised(e) == [NoEnvelope EXCEPT !.raised = Str(e)]

\* api_get: the three returns and the two except clauses
api_get_success(data, hit) ==
    [Envelope({"success", "data", "from_cache", "timestamp"}, TRUE)
        EXCEPT !.data = data, !.from_cache = hit]
api_get_error(e, ep) ==
    CASE Clause("api_get", e) = "http" ->
            [Envelope({"success", "error", "message", "endpoint"}, FALSE)
                EXCEPT !.error = HTTPText(e), !.message = ResponseText(e),
                       !.endpoint = ep]
      [] Clause("api_get", e) = "Exception" ->
            [Envelope({"success", "error", "endpoint"}, FALSE)
                EXCEPT !.error = Str(e), !.endpoint = ep]
      [] OTHER -> Raised(e)

\* api_post
api_post_success(data) ==
    [Envelope({"success", "data", "timestamp"}, TRUE) EXCEPT !.data = data]
api_post_error(e) ==
    CASE Clause("api_post", e) = "http" ->
            [Envelope({"success", "error", "message"}, FALSE)
                EXCEPT !.error = HTTPText(e), !.message = ResponseText(e)]
      [] Clause("api_post", e) = "Exception" ->
            [Envelope({"success", "error"}, FALSE) EXCEPT !.error = Str(e)]
      [] OTHER -> Raised(e)

\* api_put
api_put_success(data) == [Envelope({"success", "data"}, TRUE) EXCEPT !.data = data]
api_put_error(e) ==
    IF Clause("api_put", e) = "Exception"
    THEN [Envelope({"success", "error"}, FALSE) EXCEPT !.error = Str(e)]
    ELSE Raised(e)

\* api_delete: {"success": True, "status_code": status, "deleted": True}
api_delete_success == Envelope({"success", "status_code", "deleted"}, TRUE)
api_delete_error(e) ==
    IF Clause("api_delete", e) = "Exception"
    THEN [Envelope({"success", "error"}, FALSE) EXCEPT !.error = Str(e)]
    ELSE Raised(e)

\* self-contained-server.py: format_success / format_error
format_success(data, message) ==
    [Envelope({"success", "message", "data", "timestamp"}, TRUE)
        EXCEPT !.data = data, !.message = message]
format_error(error, code) ==
    [Envelope({"success", "error", "code", "timestamp"}, FALSE)
        EXCEPT !.error = error, !.code = code]
fetch_from_api_error(e) ==
    CASE Clause("fetch_from_api", e) = "http" -> format_error(HTTPText(e), "HTTP_ERROR")
      [] Clause("fetch_from_api", e) = "Exception" -> format_error(Str(e), "API_ERROR")
      [] OTHER -> Raised(e)

\* error-handling.py: create_success / create_error.  The value under "error"
\* is the dict {code, message, details, timestamp}, kept here in the fields
\* code, message and details; details is a set of <<key, value>> pairs.
create_success(data, message) ==
    [Envelope({"success", "message", "data", "timestamp"}, TRUE)
        EXCEPT !.data = data, !.message = message]
create_error(code, message, details) ==
    [Envelope({"success", "error"}, FALSE)
        EXCEPT !.error = "dict", !.code = code, !.message = message,
               !.details = details]

\* resilient_api_call: the except clauses
\* (variant: the 404 and 401 branches exchanged)
MutStatusCode(e) ==
    CASE e.status = 404 -> "UNAUTHORIZED"
      [] e.status = 401 -> "NOT_FOUND"
      [] e.status = 429 -> "RATE_LIMITED"
      [] OTHER -> "API_ERROR"
StatusCode(e) ==
    CASE e.status = 404 -> "NOT_FOUND"
      [] e.status = 401 -> "UNAUTHORIZED"
      [] e.status = 429 -> "RATE_LIMITED"
      [] OTHER -> "API_ERROR"
StatusMessage(e) ==
    CASE e.status = 404 -> "Resource not found"
      [] e.status = 401 -> "Unauthorized access"
      [] e.status = 429 -> "Rate limit exceeded"
      [] OTHER -> HTTPText(e)
resilient_api_call_error(e, url) ==
    CASE Clause("resilient_api_call", e) = "timeout" ->
            create_error("TIMEOUT", "Request timed out",
                         {<<"url", url>>, <<"timeout_seconds", "10">>})
      [] Clause("resilient_api_call", e) = "network" ->
            create_error("NETWORK_ERROR", "Network error occurred",
                         {<<"url", url>>, <<"error", Str(e)>>})
      [] Clause("resilient_api_call", e) = "http" ->
            create_error(StatusCode(e), StatusMessage(e),
                         {<<"url", url>>, <<"status_code", ToString(e.status)>>})
      [] Clause("resilient_api_call", e) = "Exception" ->
            create_error("UNKNOWN_ERROR", "Unexpected error: " \o Str(e),
                         {<<"url", url>>})
      [] OTHER -> Raised(e)

\* What operation o returns when the engine returned data
SuccessOf(o, data) ==
    CASE o = "api_get" -> api_get_success(data, FALSE)
      [] o = "api_post" -> api_post_success(data)
      [] o = "api_put" -> api_put_success(data)
      [] o = "api_delete" -> api_delete_success
      [] o = "fetch_from_api" -> format_success(data, "Fetched from API")
      [] o = "resilient_api_call" -> create_success(data, "API call successful")

\* What operation o returns when the engine raised e
ErrorOf(o, e, ep) ==
    CASE o = "api_get" -> api_get_error(e, ep)
      [] o = "api_post" -> api_post_error(e)
      [] o = "api_put" -> api_put_error(e)
      [] o = "api_delete" -> api_delete_error(e)
      [] o = "fetch_from_api" -> fetch_from_api_error(e)
      [] o = "resilient_api_call" -> resilient_api_call_error(e, ep)

\* What a read returns on a cache hit
HitOf(o, data) ==
    IF o = "api_get" THEN api_get_success(data, TRUE)
    ELSE format_success(data, "Retrieved from cache")

\* Position of the first "/" of a string, 0 when it has none
Slash(str) ==
    IF Contains("/", str)
    THEN CHOOSE i \in 1..Len(str) :
            /\ SubSeq(str, i, i) = "/"
            /\ \A j \in 1..(i - 1) : SubSeq(str, j, j) # "/"
    ELSE 0

\* endpoint.split('/')[1]
SplitSecond(ep) ==
    LET rest == SubSeq(ep, Slash(ep) + 1, Len(ep))
        stop == IF Slash(rest) = 0 THEN Len(rest) ELSE Slash(rest) - 1
    IN  SubSeq(rest, 1, stop)

\* The argument each write passes to cache.invalidate
InvalidationPattern(o, ep) ==
    IF o = "api_post"
    THEN IF Contains("/", ep) THEN SplitSecond(ep) ELSE ep
    ELSE ep

-----------------------------------------------------------------------------
(* The public operations: one call after another *)

\* The endpoint the calls are made on
CallEndpoints == {"/users/1"}

\* The statuses the upstream answers a call with: one of each kind an
\* operation tells apart
CallStatuses(o) ==
    IF o = "resilient_api_call" THEN {401, 404, 429, 500} ELSE {404, 500}

\* Every way the n-th request of operation o can fail
CallOutcomes(o, n) ==
    {Timeout(n), Network(n), Other(n)} \cup {HTTPStatus(s, n) : s \in CallStatuses(o)}

\* use_cache / invalidate_cache; resilient_api_call takes no flag
Flags(o) == IF o = "resilient_api_call" THEN {FALSE} ELSE BOOLEAN

\* `if use_cache:` of a read
\* (variant: the flag ignored, the cache always used)
MutUsesCache == opname \in ReadOperations
UsesCache == opname \in ReadOperations /\ use_cache

\* `if invalidate_cache:` of a write
\* (variant: the flag ignored, every successful write invalidates)
MutInvalidates == opname \in WriteOperations
Invalidates == opname \in WriteOperations /\ use_cache

\* The operation is called
Call(o, ep, flag) ==
    /\ cpc = "idle"
    /\ template = TemplateOf(o)
    /\ opname' = o
    /\ endpoint' = ep
    /\ use_cache' = flag
    /\ cpc' = "called"
    /\ path' = <<"Start">>
    /\ UNCHANGED <<api_base_url, api_key, cached, probe, envelope>>
    /\ UNCHANGED <<retryVars, cacheVars>>
    /\ UNCHANGED <<batchVars, clientVars>>

\* fetch_from_api: `if not Config.API_BASE_URL: return format_error(...)`
NotConfigured ==
    /\ cpc = "called"
    /\ opname = "fetch_from_api"
    /\ ~api_base_url
    /\ envelope' = format_error("API not configured", "API_NOT_CONFIGURED")
    /\ cpc' = "done"
    /\ path' = Append(path, "Error")
    /\ UNCHANGED <<opname, endpoint, use_cache, api_base_url, api_key, cached, probe>>
    /\ UNCHANGED <<retryVars, cacheVars>>
    /\ UNCHANGED <<batchVars, clientVars>>

\* What SimpleCache.get meets under key
Met(key) ==
    IF key \notin DOMAIN cache THEN "absent"
    ELSE IF Fresh(key) THEN "fresh" ELSE "expired"

\* `cached = cache.get(cache_key)` and `if cached:`
IsHit(value) == TruthyPayload(value)

\* `if cached: return {...}`: a hit returns at once, anything else goes on to
\* the live request
\* (variant: the return under `if cached:` missing)
MutAfterProbe(value) == "miss"
AfterProbe(value) == IF IsHit(value) THEN "hit" ELSE "miss"

Probe ==
    /\ cpc = "called"
    /\ UsesCache
    /\ opname = "fetch_from_api" => api_base_url
    /\ LET key == cache_key(opname, endpoint) IN
        /\ Get(key)
        /\ cached' = GetReturn(key)
        /\ probe' = Met(key)
        /\ cpc' = AfterProbe(GetReturn(key))
        /\ path' = Append(path, IF IsHit(GetReturn(key)) THEN "CacheHit" ELSE "CacheMiss")
    /\ UNCHANGED <<opname, endpoint, use_cache, api_base_url, api_key, envelope>>
    /\ UNCHANGED <<batchVars, clientVars>>

\* The cache-hit return
HitReturn ==
    /\ cpc = "hit"
    /\ envelope' = HitOf(opname, cached)
    /\ cpc' = "done"
    /\ path' = Append(path, "Success")
    /\ UNCHANGED <<opname, endpoint, use_cache, api_base_url, api_key, cached, probe>>
    /\ UNCHANGED <<retryVars, cacheVars>>
    /\ UNCHANGED <<batchVars, clientVars>>

\* The call has come to its live request: after a miss, or at once when the
\* cache is not consulted
AtFetch ==
    \/ cpc = "miss"
    \/ /\ cpc = "called"
       /\ ~UsesCache
       /\ opname = "fetch_from_api" => api_base_url

\* APIClient.get_client.  It is a coroutine without an await in its body, so
\* it runs from its first line to its return without any other coroutine of
\* the event loop running in between.
\* `if not Config.API_BASE_URL or not Config.API_KEY: return None`
\* (self-contained-server.py only; api-client-pattern.py has no such check)
\* (variant: only the credential is looked at)
MutAvailable == template = "self_contained" => api_key
Available == template = "self_contained" => (api_base_url /\ api_key)

\* `if cls._instance is None:`
\* (variant: the check missing, a client constructed by every call)
MutConstructs == TRUE
Constructs == _instance = NoClient

\* httpx.AsyncClient(base_url=..., headers={"Authorization": f"Bearer {API_KEY}"}, ...):
\* construction succeeds whatever the configuration holds; the client is
\* authorized when there is a credential to send
NewClient ==
    [state |-> "open", closes |-> 0, authorized |-> api_key, born |-> resets]

\* get_client: the handle and the clients it leaves, and what it returns
GetClientHandle == IF Available /\ Constructs THEN Len(clients) + 1 ELSE _instance
GetClientClients ==
    IF Available /\ Constructs THEN Append(clients, NewClient) ELSE clients
GetClientReturn == IF Available THEN GetClientHandle ELSE NoClient

get_client ==
    /\ _instance' = GetClientHandle
    /\ clients' = GetClientClients
    /\ UNCHANGED resets

\* make_request of api-client-pattern.py takes the client and sends the
\* request; fetch_from_api took its client before entering the engine, and
\* resilient_api_call opens a client of its own for every request
make_request ==
    IF template = "api_client"
    THEN get_client /\ UNCHANGED procs
    ELSE UNCHANGED clientVars

\* fetch_from_api: `if not client: return format_error(...)`
ClientUnavailable ==
    /\ AtFetch
    /\ opname = "fetch_from_api"
    /\ GetClientReturn = NoClient
    /\ get_client
    /\ envelope' = format_error("API client not available", "CLIENT_ERROR")
    /\ cpc' = "done"
    /\ path' = Append(path, "Error")
    /\ UNCHANGED <<opname, endpoint, use_cache, api_base_url, api_key, cached, probe>>
    /\ UNCHANGED <<retryVars, cacheVars>>
    /\ UNCHANGED <<batchVars, procs>>

\* `await retry_with_backoff(make_request, ...)`: the engine is entered
\* (fetch_from_api has called get_client just before)
EnterRetry(a) ==
    /\ AtFetch
    /\ opname = "fetch_from_api" => GetClientReturn # NoClient
    /\ Enter(opname, a)
    /\ IF opname = "fetch_from_api"
       THEN get_client /\ UNCHANGED procs
       ELSE UNCHANGED clientVars
    /\ cpc' = "retrying"
    /\ path' = Append(path, "Retrying")
    /\ UNCHANGED <<opname, endpoint, use_cache, api_base_url, api_key, cached,
                   probe, envelope>>
    /\ UNCHANGED batchVars

\* The arguments the operation in progress passes to the engine
\* (api_put, api_delete and resilient_api_call pass the literal default; the
\* others pass Config.MAX_RETRIES, tried here up to MaxCallRetries)
CallArgs ==
    IF opname \in {"api_put", "api_delete", "resilient_api_call"}
    THEN CallerArgs(opname)
    ELSE IF opname \in Operations
         THEN {a \in CallerArgs(opname) : a.max_retries <= MaxCallRetries}
         ELSE {}

\* The engine runs inside the call; the stage "Terminal" is the engine giving up
Attempt ==
    /\ cpc = "retrying"
    /\ \/ InvokeOk /\ make_request
       \/ \E e \in CallOutcomes(opname, Len(outcomes) + 1) : InvokeCaught(e) /\ make_request
       \/ Sleep /\ UNCHANGED clientVars
    /\ UNCHANGED <<callVars, batchVars>>

GiveUp ==
    /\ cpc = "retrying"
    /\ \/ \E e \in CallOutcomes(opname, Len(outcomes) + 1) : InvokeRaised(e) /\ make_request
       \/ RaiseLast /\ UNCHANGED clientVars
    /\ path' = Append(path, "Terminal")
    /\ UNCHANGED <<opname, endpoint, use_cache, api_base_url, api_key, cpc, cached,
                   probe, envelope>>
    /\ UNCHANGED batchVars

\* `if use_cache: cache.set(cache_key, data)` after the engine returned
\* (variant: the write-back missing)
MutWritesBack == FALSE
WritesBack == UsesCache

\* The engine returned: the cache is written (a read with use_cache) or
\* invalidated (a write with invalidate_cache), then the success dict is built
FinishReturn(data) ==
    /\ cpc = "retrying"
    /\ pc = "done"
    /\ result.kind = "return"
    /\ IF WritesBack
       THEN Set(cache_key(opname, endpoint), data)
       ELSE IF Invalidates
            THEN Invalidate(InvalidationPattern(opname, endpoint))
            ELSE UNCHANGED <<retryVars, cacheVars>>
    /\ envelope' = SuccessOf(opname, data)
    /\ cpc' = "done"
    /\ path' = Append(path, "Success")
    /\ UNCHANGED <<opname, endpoint, use_cache, api_base_url, api_key, cached, probe>>
    /\ UNCHANGED <<batchVars, clientVars>>

\* The engine raised: the except clauses build the error dict
FinishRaise ==
    /\ cpc = "retrying"
    /\ pc = "done"
    /\ result.kind = "raise"
    /\ envelope' = ErrorOf(opname, result.value, endpoint)
    /\ cpc' = "done"
    /\ path' = Append(path, IF envelope'.raised = None THEN "Error" ELSE "Raised")
    /\ UNCHANGED <<opname, endpoint, use_cache, api_base_url, api_key, cached, probe>>
    /\ UNCHANGED <<retryVars, cacheVars>>
    /\ UNCHANGED <<batchVars, clientVars>>

\* The caller has the envelope; the server waits for the next call
Return ==
    /\ cpc = "done"
    /\ caller' = None
    /\ engine' = None
    /\ max_retries' = 0
    /\ initial_delay' = 0
    /\ exponential_base' = 0
    /\ catch_exceptions' = {}
    /\ pc' = "idle"
    /\ attempt' = 0
    /\ delay' = 0
    /\ last_exception' = NoException
    /\ outcomes' = <<>>
    /\ sleeps' = <<>>
    /\ result' = NoResult
    /\ opname' = None
    /\ endpoint' = None
    /\ use_cache' = FALSE
    /\ cpc' = "idle"
    /\ cached' = None
    /\ probe' = "none"
    /\ envelope' = NoEnvelope
    /\ path' = <<>>
    /\ op' = NoOp
    /\ ret' = None
    /\ UNCHANGED <<api_base_url, api_key, template, ttl, cache, timestamps, now>>
    /\ UNCHANGED <<batchVars, clientVars>>

\* Time passes between two calls
Idle ==
    /\ cpc = "idle"
    /\ Tick
    /\ UNCHANGED <<callVars, batchVars, clientVars>>

\* The steps of a call in progress
CallStep ==
    \/ NotConfigured
    \/ Probe
    \/ HitReturn
    \/ ClientUnavailable
    \/ \E a \in CallArgs : EnterRetry(a)
    \/ Attempt
    \/ GiveUp
    \/ \E data \in Values : FinishReturn(data)
    \/ FinishRaise

CallNext ==
    \/ \E o \in Operations : \E ep \in CallEndpoints : \E flag \in Flags(o) :
          Call(o, ep, flag)
    \/ NotConfigured
    \/ Probe
    \/ HitReturn
    \/ ClientUnavailable
    \/ \E a \in CallArgs : EnterRetry(a)
    \/ Attempt
    \/ GiveUp
    \/ \E data \in Values : FinishReturn(data)
    \/ FinishRaise
    \/ Return
    \/ Idle

\* A started server of one of the three templates.  The self-contained one
\* may have no API_BASE_URL or API_KEY; the cache starts empty.
CallInit ==
    /\ RetryIdle
    /\ template \in {"api_client", "self_contained", "error_handling"}
    /\ ttl \in ConfigCacheTTL
    /\ cache = <<>>
    /\ timestamps = <<>>
    /\ now = 0
    /\ op = NoOp
    /\ ret = None
    /\ opname = None
    /\ endpoint = None
    /\ use_cache = FALSE
    /\ api_base_url \in (IF template = "self_contained" THEN BOOLEAN ELSE {TRUE})
    /\ api_key \in (IF template = "self_contained" THEN BOOLEAN ELSE {TRUE})
    /\ cpc = "idle"
    /\ cached = None
    /\ probe = "none"
    /\ envelope = NoEnvelope
    /\ path = <<>>
    /\ BatchIdle
    /\ ClientIdle

CallSpec == CallInit /\ [][CallNext]_vars

\* A call in progress is always resumed: the event loop runs the coroutine,
\* and every request and every sleep it awaits completes
CallFairSpec == CallSpec /\ WF_vars(CallStep)

\* The api-client server answering api_get calls only
ApiGetNext ==
    \/ \E ep \in CallEndpoints : \E flag \in BOOLEAN : Call("api_get", ep, flag)
    \/ Probe
    \/ HitReturn
    \/ \E a \in CallArgs : EnterRetry(a)
    \/ Attempt
    \/ GiveUp
    \/ \E data \in Values : FinishReturn(data)
    \/ FinishRaise
    \/ Return
    \/ Idle

ApiGetInit == CallInit /\ template = "api_client"

ApiGetSpec == ApiGetInit /\ [][ApiGetNext]_vars

\* An api_get call in progress is always resumed
ApiGetFairSpec == ApiGetSpec /\ WF_vars(CallStep)

-----------------------------------------------------------------------------
(* The client handle: coroutines of one event loop that take the pooled      *)
(* client (a tool call: get_client, then a request on the client) and        *)
(* coroutines that run APIClient.cleanup.  get_client has no await;          *)
(* cleanup is suspended once, in `await cls._instance.aclose()`, between     *)
(* its check of the handle and its reset of the handle.                      *)

\* A coroutine that has not been started
NewProc(kind) ==
    [kind |-> kind, pc |-> "idle", client |-> NoClient, epoch |-> 0,
     received |-> "none", outcome |-> "none"]

\* The state of client c, "none" for None
StateOf(c) == IF c \in DOMAIN clients THEN clients[c].state ELSE "none"

\* How a request on client c can end: the upstream of the model asks for the
\* credential, and a closed client sends nothing
Responses(c) ==
    IF c \in DOMAIN clients /\ clients[c].authorized /\ clients[c].state # "closed"
    THEN {"ok", "error"}
    ELSE {"error"}

\* The coroutine can be called: it has not been started, or it has returned
\* (the next call is a new coroutine)
Callable(i) == procs[i].pc \in {"idle", "done", "unavailable"}

\* A tool calls get_client and, given a client, sends its request
ToolGetClient(i) ==
    /\ procs[i].kind = "tool"
    /\ Callable(i)
    /\ (Available /\ Constructs) => Len(clients) < MaxClients
    /\ get_client
    /\ procs' = [procs EXCEPT ![i] =
                    [@ EXCEPT !.client = GetClientReturn,
                              !.epoch = resets,
                              !.outcome = "none",
                              !.received = IF GetClientReturn \in DOMAIN clients
                                           THEN clients[GetClientReturn].state
                                           ELSE IF GetClientReturn = NoClient
                                                THEN "none" ELSE "open",
                              !.pc = IF GetClientReturn = NoClient
                                     THEN "unavailable" ELSE "requesting"]]
    /\ UNCHANGED <<retryVars, cacheVars, callVars, batchVars>>

\* The request of a tool completes and the tool returns; its local `client`
\* is gone
ToolRespond(i, o) ==
    /\ procs[i].kind = "tool"
    /\ procs[i].pc = "requesting"
    /\ procs' = [procs EXCEPT ![i] =
                    [NewProc("tool") EXCEPT !.pc = "done", !.outcome = o]]
    /\ UNCHANGED <<_instance, clients, resets>>
    /\ UNCHANGED <<retryVars, cacheVars, callVars, batchVars>>

\* `if cls._instance:` of cleanup
\* (variant: the check missing)
MutHasClient == TRUE
HasClient == _instance # NoClient

\* aclose() is called on client c
Closing(c) ==
    IF c \in DOMAIN clients
    THEN [clients EXCEPT ![c] = [@ EXCEPT !.state = IF @ = "closed" THEN @ ELSE "closing",
                                          !.closes = @ + 1]]
    ELSE clients

\* aclose() on client c has completed
Closed(c) ==
    IF c \in DOMAIN clients
    THEN [clients EXCEPT ![c] = [@ EXCEPT !.state = "closed"]]
    ELSE clients

\* cleanup is called: with a client in the handle it starts closing it and is
\* suspended, without one it returns at once
CleanupCall(i) ==
    /\ procs[i].kind = "cleanup"
    /\ Callable(i)
    /\ IF HasClient
       THEN /\ clients' = Closing(_instance)
            /\ procs' = [procs EXCEPT ![i] =
                            [@ EXCEPT !.pc = "closing", !.client = _instance,
                                      !.received = StateOf(_instance)]]
       ELSE /\ clients' = clients
            /\ procs' = [procs EXCEPT ![i] = [NewProc("cleanup") EXCEPT !.pc = "done"]]
    /\ UNCHANGED <<_instance, resets>>
    /\ UNCHANGED <<retryVars, cacheVars, callVars, batchVars>>

\* aclose() has completed: `cls._instance = None`
CleanupResume(i) ==
    /\ procs[i].kind = "cleanup"
    /\ procs[i].pc = "closing"
    /\ clients' = Closed(procs[i].client)
    /\ _instance' = NoClient
    /\ resets' = resets + 1
    /\ procs' = [procs EXCEPT ![i] = [NewProc("cleanup") EXCEPT !.pc = "done"]]
    /\ UNCHANGED <<retryVars, cacheVars, callVars, batchVars>>

ClientNext ==
    \/ \E i \in DOMAIN procs : ToolGetClient(i)
    \/ \E i \in DOMAIN procs : \E o \in Responses(procs[i].client) : ToolRespond(i, o)
    \/ \E i \in DOMAIN procs : CleanupCall(i)
    \/ \E i \in DOMAIN procs : CleanupResume(i)

\* A started server of either template with a handle, under any configuration
ClientInit ==
    /\ RetryIdle
    /\ BatchIdle
    /\ opname = None
    /\ endpoint = None
    /\ use_cache = FALSE
    /\ template \in {"api_client", "self_contained"}
    /\ api_base_url \in (IF template = "self_contained" THEN BOOLEAN ELSE {TRUE})
    /\ api_key \in BOOLEAN
    /\ cpc = "idle"
    /\ cached = None
    /\ probe = "none"
    /\ envelope = NoEnvelope
    /\ path = <<>>
    /\ ttl = 0
    /\ cache = <<>>
    /\ timestamps = <<>>
    /\ now = 0
    /\ op = NoOp
    /\ ret = None
    /\ _instance = NoClient
    /\ clients = <<>>
    /\ resets = 0
    /\ procs = [i \in 1..(MaxTools + MaxCleanups) |->
                    NewProc(IF i <= MaxTools THEN "tool" ELSE "cleanup")]

ClientSpec == ClientInit /\ [][ClientNext]_vars

-----------------------------------------------------------------------------
(* The batch operations: batch_api_requests (api-client-pattern.py) gathers  *)
(* api_get(endpoint, use_cache) for every endpoint; batch_api_request        *)
(* (openapi-integration.py) gathers fetch_endpoint(endpoint), one request    *)
(* with neither cache nor retry.  The items are coroutines of one event      *)
(* loop: each runs without interruption from one await to the next (the      *)
(* request and the backoff sleep), and the items interleave at those points  *)
(* in any order.  The clock stands still during a batch: with ttl = 0 every  *)
(* entry is expired when probed, with ttl > 0 every entry written during     *)
(* the batch stays fresh.                                                    *)

BatchEndpoints == {"/users/1", "/posts/7"}

\* Every list of at most MaxItems endpoints, duplicates included
RECURSIVE Lists(_)
Lists(n) ==
    IF n = 0 THEN {<<>>}
    ELSE Lists(n - 1) \cup
         {Append(l, ep) : l \in {x \in Lists(n - 1) : Len(x) = n - 1}, ep \in BatchEndpoints}

\* Config.MAX_RETRIES of the server, and Config.CACHE_TTL relative to the
\* duration of a batch
BatchMaxRetries == {0, 1, MaxBatchRetries}
BatchTTL == {0, MaxTTL}

\* What the upstream answers a request with: success, a failure api_get
\* retries, a failure it does not; fetch_endpoint treats every failure alike
BatchOutcomes(n) ==
    IF template = "openapi" THEN {Ok(n), Timeout(n)}
    ELSE {Ok(n), Timeout(n), HTTPStatus(404, n)}

\* The body the upstream returns for an endpoint
Payload(ep) == "data of " \o ep

\* A coroutine gather has wrapped in a task; outcome is how its latest
\* request ended ("none" before the first answer)
NewTask(ep, flag, m) ==
    [pc |-> "scheduled", endpoint |-> ep, use_cache |-> flag, max_retries |-> m,
     attempt |-> 0, last_exception |-> NoException, outcome |-> "none",
     envelope |-> NoEnvelope]

\* fetch_endpoint of openapi-integration.py: the two returns
fetch_endpoint_success(ep, data) ==
    [Envelope({"endpoint", "success", "data"}, TRUE)
        EXCEPT !.endpoint = ep, !.data = data]
fetch_endpoint_error(ep, e) ==
    [Envelope({"endpoint", "success", "error"}, FALSE)
        EXCEPT !.endpoint = ep, !.error = Str(e)]

\* What an item returns
TaskSuccess(t, data) ==
    IF template = "openapi" THEN fetch_endpoint_success(t.endpoint, data)
    ELSE api_get_success(data, FALSE)
TaskError(t, e) ==
    IF template = "openapi" THEN fetch_endpoint_error(t.endpoint, e)
    ELSE api_get_error(e, t.endpoint)

\* What an item does with a failed request: fetch_endpoint has no retry
TaskClassify(e) == IF template = "openapi" THEN "raise" ELSE ClassifyApiClient(e)

\* The item consults the cache
Probing(t) == template = "api_client" /\ t.use_cache

\* results = await asyncio.gather(*[...]): the value of each awaitable, in the
\* order of the awaitables
\* (variant: the values in the order the items finished, as_completed)
MutGathered(ts, ord) == [i \in 1..Len(ts) |-> ts[ord[i]].envelope]
Gathered(ts, ord) == [i \in 1..Len(ts) |-> ts[i].envelope]

\* len([r for r in results if r.get("success")])
\* (variant: every result counted as successful)
MutSuccessful(results) == Len(results)
Successful(results) == Len(SelectSeq(results, LAMBDA r : r.success))

\* len([r for r in results if not r.get("success")])
Failed(results) == Len(SelectSeq(results, LAMBDA r : ~r.success))

\* gather waits until every awaitable is done
\* (variant: return_when=FIRST_COMPLETED)
MutAllDone(ts) == \E i \in DOMAIN ts : ts[i].pc = "finished"
AllDone(ts) == \A i \in DOMAIN ts : ts[i].pc = "finished"

\* gather (return_exceptions=False) passes the first exception of an item on
\* to the awaiting dispatcher
\* (variant: an item raising its error instead of returning the envelope)
MutAborts(ts) ==
    \E i \in DOMAIN ts : ts[i].pc = "finished" /\ ~ts[i].envelope.success
Aborts(ts) ==
    \E i \in DOMAIN ts : ts[i].pc = "finished" /\ ts[i].envelope.raised # None

\* The dict the batch operation returns
BatchResult(eps, results) ==
    [total |-> Len(eps), successful |-> Successful(results),
     failed |-> Failed(results), results |-> results, raised |-> None]

\* The operation is called: every coroutine is created and handed to gather,
\* then the dispatcher awaits
Dispatch(eps, flag, m) ==
    /\ bpc = "idle"
    /\ endpoints' = eps
    /\ tasks' = [i \in 1..Len(eps) |-> NewTask(eps[i], flag, m)]
    /\ order' = <<>>
    /\ bpc' = "waiting"
    /\ UNCHANGED batch
    /\ UNCHANGED <<retryVars, cacheVars, callVars, clientVars>>

\* Item i returns env after its latest request ended as out; its locals are gone
Finish(i, env, out) ==
    /\ tasks' = [tasks EXCEPT ![i] =
                    [@ EXCEPT !.pc = "finished", !.envelope = env, !.attempt = 0,
                              !.last_exception = NoException, !.outcome = out]]
    /\ order' = Append(order, i)

\* Item i runs from its start to its first await: the cache probe, then the
\* first request (or, with an empty retry loop, `raise last_exception`)
TaskStart(i) ==
    /\ bpc = "waiting"
    /\ tasks[i].pc = "scheduled"
    /\ LET t == tasks[i]
           key == cache_key("api_get", t.endpoint)
       IN  /\ IF Probing(t) THEN Get(key) ELSE UNCHANGED <<retryVars, cacheVars>>
           /\ IF Probing(t) /\ IsHit(GetReturn(key))
              THEN /\ Finish(i, api_get_success(GetReturn(key), TRUE), "none")
                   /\ UNCHANGED clientVars
              ELSE IF ForNext(0, t.max_retries) = "attempt"
                   THEN /\ tasks' = [tasks EXCEPT ![i] = [@ EXCEPT !.pc = "awaiting"]]
                        /\ order' = order
                        /\ make_request
                   ELSE /\ Finish(i, TaskError(t, TypeError), "none")
                        /\ UNCHANGED clientVars
    /\ UNCHANGED <<endpoints, bpc, batch>>
    /\ UNCHANGED callVars

\* The request of item i completes with outcome o, and the item runs to its
\* next await or to its return
TaskRespond(i, o) ==
    /\ bpc = "waiting"
    /\ tasks[i].pc = "awaiting"
    /\ LET t == tasks[i]
           key == cache_key("api_get", t.endpoint)
       IN  IF o.kind = "ok"
           THEN /\ IF Probing(t)
                   THEN Set(key, Payload(t.endpoint))
                   ELSE UNCHANGED <<retryVars, cacheVars>>
                /\ Finish(i, TaskSuccess(t, Payload(t.endpoint)), o.kind)
           ELSE /\ UNCHANGED <<retryVars, cacheVars>>
                /\ IF TaskClassify(o) = "retry" /\ t.attempt < t.max_retries - 1
                   THEN /\ tasks' = [tasks EXCEPT ![i] =
                                       [@ EXCEPT !.pc = "sleeping", !.last_exception = o,
                                                 !.outcome = o.kind]]
                        /\ order' = order
                   ELSE Finish(i, TaskError(t, o), o.kind)
    /\ UNCHANGED <<endpoints, bpc, batch>>
    /\ UNCHANGED <<callVars, clientVars>>

\* The backoff sleep of item i is over: the next attempt takes the client and
\* sends its request
TaskWake(i) ==
    /\ bpc = "waiting"
    /\ tasks[i].pc = "sleeping"
    /\ tasks' = [tasks EXCEPT ![i] =
                    [@ EXCEPT !.pc = "awaiting", !.attempt = @ + 1]]
    /\ make_request
    /\ UNCHANGED <<endpoints, order, bpc, batch>>
    /\ UNCHANGED <<retryVars, cacheVars, callVars>>

\* gather is done: the dispatcher counts and returns (or the exception of an
\* item goes through it)
Gather ==
    /\ bpc = "waiting"
    /\ AllDone(tasks) \/ Aborts(tasks)
    /\ batch' = IF Aborts(tasks)
                THEN [NoBatch EXCEPT !.raised = "exception"]
                ELSE BatchResult(endpoints, Gathered(tasks, order))
    /\ bpc' = "done"
    /\ UNCHANGED <<endpoints, tasks, order>>
    /\ UNCHANGED <<retryVars, cacheVars, callVars, clientVars>>

\* The steps of a batch in progress
BatchStep ==
    \/ \E i \in DOMAIN tasks : TaskStart(i)
    \/ \E i \in DOMAIN tasks : \E o \in BatchOutcomes(tasks[i].attempt + 1) :
          TaskRespond(i, o)
    \/ \E i \in DOMAIN tasks : TaskWake(i)
    \/ Gather

\* The longest list tried: items that are plain requests, items that are
\* api_get calls with their cache probe and retry loop
MaxLen == IF template = "openapi" THEN MaxItems ELSE MaxRetriedItems

\* batch_api_request takes no use_cache and makes one request per item
BatchNext ==
    \/ \E eps \in Lists(MaxLen) :
       \E flag \in (IF template = "openapi" THEN {FALSE} ELSE BOOLEAN) :
       \E m \in (IF template = "openapi" THEN {1} ELSE BatchMaxRetries) :
          Dispatch(eps, flag, m)
    \/ \E i \in DOMAIN tasks : TaskStart(i)
    \/ \E i \in DOMAIN tasks : \E o \in BatchOutcomes(tasks[i].attempt + 1) :
          TaskRespond(i, o)
    \/ \E i \in DOMAIN tasks : TaskWake(i)
    \/ Gather

\* A started server of either template, its cache empty
BatchInit ==
    /\ RetryIdle
    /\ CallIdle
    /\ BatchIdle
    /\ ClientIdle
    /\ template \in {"api_client", "openapi"}
    /\ ttl \in (IF template = "openapi" THEN {0} ELSE BatchTTL)
    /\ cache = <<>>
    /\ timestamps = <<>>
    /\ now = 0
    /\ op = NoOp
    /\ ret = None

BatchSpec == BatchInit /\ [][BatchNext]_vars

\* Every request and every sleep of an item completes, and the event loop
\* runs every coroutine that can run
BatchFairSpec == BatchSpec /\ WF_vars(BatchStep)

-----------------------------------------------------------------------------
(* The api-client server under concurrent tool calls: api_get, api_post,     *)
(* api_put, api_delete and clear_cache called while other calls are in       *)
(* progress.  Async tools are coroutines of the one event loop: a call runs  *)
(* without interruption from one await to the next, and the calls interleave *)
(* at those points in any order.  A call has one await that matters to the   *)
(* cache, `await retry_with_backoff(make_request, ...)`: what the engine     *)
(* does inside it (requests, sleeps) touches no state the calls share but    *)
(* the client handle, so the await is one wait here, ended by the engine     *)
(* returning or raising.  The cache operations have no await, and            *)
(* clear_cache is a plain function the event loop calls inline: each runs    *)
(* as one step.  As in a batch, the clock stands still.                      *)

ToolOperations == {"api_get", "api_post", "api_put", "api_delete"}

\* A collection and a resource in it: both are read, the resource is written
ToolEndpoints(o) == IF o = "api_get" THEN {"/users", "/users/42"} ELSE {"/users/42"}

\* No call in the slot; outcome is how the call that was in it ended
NoCall ==
    [opname |-> None, pc |-> "idle", endpoint |-> None, use_cache |-> FALSE,
     data |-> None, outcome |-> "none"]

\* A call that waits for the engine; data is the body of the response once
\* the upstream has sent it
NewCall(o, ep, flag) ==
    [opname |-> o, pc |-> "awaiting", endpoint |-> ep, use_cache |-> flag,
     data |-> None, outcome |-> "none"]

\* The slot after its call has returned
Ended(how) == [NoCall EXCEPT !.outcome = how]

\* The body of a response to a read of ep that the upstream sent before a
\* write to ep was done: what the upstream holds now is Payload(ep)
Superseded(ep) == "superseded data of " \o ep

\* The calls as a write to ep that has been done leaves them: the responses
\* to reads of ep that are on their way are superseded
Overtaken(ts, ep) ==
    [j \in DOMAIN ts |->
        IF ts[j].pc = "fetched" /\ ts[j].endpoint = ep
        THEN [ts[j] EXCEPT !.data = Superseded(ep)]
        ELSE ts[j]]

\* `response = await client.get(endpoint)`: the upstream has
\* answered the read of call i, whose coroutine has not been resumed yet
ToolFetched(i) ==
    /\ bpc = "idle"
    /\ tasks[i].pc = "awaiting"
    /\ tasks[i].opname = "api_get"
    /\ tasks' = [tasks EXCEPT ![i].pc = "fetched", ![i].data = Payload(tasks[i].endpoint)]
    /\ UNCHANGED <<endpoints, order, bpc, batch>>
    /\ UNCHANGED <<retryVars, cacheVars, callVars, clientVars>>

\* max_retries as each tool passes it
ToolMaxRetries(o) ==
    IF o \in {"api_put", "api_delete"} THEN {DefaultMaxRetries} ELSE BatchMaxRetries

\* The slot a new call takes: the first free one
FreeSlot(i) ==
    /\ tasks[i].pc = "idle"
    /\ \A j \in 1..(i - 1) : tasks[j].pc # "idle"

\* A tool is called and runs to its await of the engine (the first request is
\* sent), or to its return when it has nothing to await: api_get answering
\* from the cache, or a retry loop that is empty
ToolCall(i, o, ep, flag, m) ==
    /\ bpc = "idle"
    /\ FreeSlot(i)
    /\ LET key == cache_key(o, ep)
           probing == o = "api_get" /\ flag
       IN  /\ IF probing THEN Get(key) ELSE UNCHANGED <<retryVars, cacheVars>>
           /\ IF probing /\ IsHit(GetReturn(key))
              THEN /\ tasks' = [tasks EXCEPT ![i] = Ended("hit")]
                   /\ UNCHANGED clientVars
              ELSE IF ForNext(0, m) = "attempt"
                   THEN /\ tasks' = [tasks EXCEPT ![i] = NewCall(o, ep, flag)]
                        /\ make_request
                   ELSE /\ tasks' = [tasks EXCEPT ![i] = Ended("error")]
                        /\ UNCHANGED clientVars
    /\ UNCHANGED <<endpoints, order, bpc, batch>>
    /\ UNCHANGED callVars

\* The engine of call i returns (o is the successful response) or raises (o
\* is the failure it gave up on), and the call runs to its return: after a
\* success a read writes the body it received to the cache and a write
\* invalidates the cache.  A read whose response had arrived resumes with
\* that response.
ToolReply(i, o) ==
    /\ bpc = "idle"
    /\ tasks[i].pc \in (IF o = Ok(1) THEN {"awaiting", "fetched"} ELSE {"awaiting"})
    /\ LET t == tasks[i]
           body == IF t.pc = "fetched" THEN t.data ELSE Payload(t.endpoint)
       IN
       IF o.kind = "ok"
       THEN /\ IF t.opname = "api_get" /\ t.use_cache
               THEN Set(cache_key(t.opname, t.endpoint), body)
               ELSE IF t.opname \in WriteOperations /\ t.use_cache
                    THEN Invalidate(InvalidationPattern(t.opname, t.endpoint))
                    ELSE UNCHANGED <<retryVars, cacheVars>>
            /\ tasks' = IF t.opname \in WriteOperations
                        THEN [Overtaken(tasks, t.endpoint) EXCEPT ![i] = Ended("ok")]
                        ELSE [tasks EXCEPT ![i] = Ended("ok")]
       ELSE /\ UNCHANGED <<retryVars, cacheVars>>
            /\ tasks' = [tasks EXCEPT ![i] = Ended("error")]
    /\ UNCHANGED <<endpoints, order, bpc, batch>>
    /\ UNCHANGED <<callVars, clientVars>>

\* The clear_cache tool is called
ToolClearCache(pattern) ==
    /\ bpc = "idle"
    /\ tasks # <<>>
    /\ clear_cache(pattern)
    /\ UNCHANGED <<callVars, batchVars, clientVars>>

ServerNext ==
    \/ \E i \in DOMAIN tasks : \E o \in ToolOperations : \E ep \in ToolEndpoints(o) :
       \E flag \in BOOLEAN : \E m \in ToolMaxRetries(o) :
          ToolCall(i, o, ep, flag, m)
    \/ \E i \in DOMAIN tasks : \E o \in {Ok(1), Timeout(1), HTTPStatus(404, 1)} :
          ToolReply(i, o)
    \/ \E pattern \in {None, "users"} : ToolClearCache(pattern)

\* A started api-client server, its cache empty, that can run MaxCalls calls
\* at a time
ServerInit ==
    /\ RetryIdle
    /\ CallIdle
    /\ ClientIdle
    /\ template = "api_client"
    /\ ttl \in BatchTTL
    /\ cache = <<>>
    /\ timestamps = <<>>
    /\ now = 0
    /\ op = NoOp
    /\ ret = None
    /\ endpoints = <<>>
    /\ tasks = [i \in 1..MaxCalls |-> NoCall]
    /\ order = <<>>
    /\ bpc = "idle"
    /\ batch = NoBatch

ServerSpec == ServerInit /\ [][ServerNext]_vars

\* Reads that use the cache racing writes that invalidate it: the same
\* server, with the arrival of a read's response and the resumption of its
\* coroutine as two steps, between which other calls may run
RaceNext ==
    \/ \E i \in DOMAIN tasks : \E o \in ToolOperations : \E ep \in ToolEndpoints(o) :
       \E m \in ToolMaxRetries(o) :
          ToolCall(i, o, ep, TRUE, m)
    \/ \E i \in DOMAIN tasks : ToolFetched(i)
    \/ \E i \in DOMAIN tasks : \E o \in {Ok(1), Timeout(1)} : ToolReply(i, o)

RaceSpec == ServerInit /\ [][RaceNext]_vars

\* api_post called with endpoints of every shape (with and without a leading
\* slash, without any slash, the root) on the same server, after cached reads
\* of two collections
PostEndpoints(o) ==
    IF o = "api_get" THEN {"/users", "/posts/42"}
    ELSE {"/users/42", "users/42", "users", "/"}

PostNext ==
    \/ \E i \in DOMAIN tasks : \E o \in {"api_get", "api_post"} :
       \E ep \in PostEndpoints(o) : \E m \in ToolMaxRetries(o) :
          ToolCall(i, o, ep, TRUE, m)
    \/ \E i \in DOMAIN tasks : \E o \in {Ok(1), Timeout(1)} : ToolReply(i, o)

PostSpec == ServerInit /\ [][PostNext]_vars

-----------------------------------------------------------------------------
(* Properties of the public operations *)

\* The operation in progress has returned, and this is what it returned
Returned == cpc = "done"

\* C16: every envelope a core operation returns has exactly one of data and
\* error: a success envelope carries data and no error, an error envelope
\* carries error and no data.
C16_EnvelopeExclusivity ==
    Returned =>
        IF envelope.success
        THEN "data" \in envelope.keys /\ "error" \notin envelope.keys
        ELSE "error" \in envelope.keys /\ "data" \notin envelope.keys

\* C17: whatever the upstream call does, every public operation returns a
\* dict with a success flag; no exception leaves the operation.
C17_NoFaultEscapes ==
    /\ envelope.raised = None
    /\ Returned => "success" \in envelope.keys
    /\ (Returned /\ pc = "done") => (envelope.success <=> result.kind = "return")

\* api_get has turned an exception that is neither a timeout, a network error
\* nor an HTTP status error into an error envelope
C17_Witness ==
    /\ Returned
    /\ opname = "api_get"
    /\ result.kind = "raise"
    /\ result.value.kind = "other"
    /\ Len(outcomes) = 1
    /\ ~envelope.success
    /\ envelope.error = "other failure"

\* The error kind the taxonomy gives a failure
KindOf(e) ==
    CASE e.kind = "timeout" -> "TIMEOUT"
      [] e.kind = "network" -> "NETWORK_ERROR"
      [] e.kind = "http" /\ e.status = 404 -> "NOT_FOUND"
      [] e.kind = "http" /\ e.status = 401 -> "UNAUTHORIZED"
      [] e.kind = "http" /\ e.status = 429 -> "RATE_LIMITED"
      [] e.kind = "http" -> "API_ERROR"
      [] OTHER -> "UNKNOWN_ERROR"

\* resilient_api_call has returned the envelope of a failure
ClassifiedFailure ==
    Returned /\ opname = "resilient_api_call" /\ result.kind = "raise"

\* C18: the final failure is mapped to exactly one kind: 404 to NOT_FOUND, 401
\* to UNAUTHORIZED, 429 to RATE_LIMITED, any other HTTP status to API_ERROR, a
\* timeout to TIMEOUT, a network error to NETWORK_ERROR, anything else to
\* UNKNOWN_ERROR; the message of an unknown fault is kept in the envelope's
\* message ("Unexpected error: <message>"), and its details hold the url only.
C18_ErrorKindMapping ==
    ClassifiedFailure =>
        /\ ~envelope.success
        /\ envelope.code = KindOf(result.value)
        /\ KindOf(result.value) = "UNKNOWN_ERROR" =>
              /\ envelope.message = "Unexpected error: " \o Str(result.value)
              /\ envelope.details = {<<"url", endpoint>>}

\* An exception of no named class came out of the first request
C18_Witness ==
    /\ ClassifiedFailure
    /\ result.value.kind = "other"
    /\ Len(outcomes) = 1
    /\ envelope.code = "UNKNOWN_ERROR"

\* C18 as stated: the same mapping, with the message of an unknown fault
\* preserved in the details of the envelope.
C18_MessageInDetails ==
    ClassifiedFailure =>
        /\ envelope.code = KindOf(result.value)
        /\ KindOf(result.value) = "UNKNOWN_ERROR" =>
              \E d \in envelope.details : d[2] = Str(result.value)

\* The envelope says its data came from the cache
CacheDerived ==
    /\ envelope.success
    /\ \/ "from_cache" \in envelope.keys /\ envelope.from_cache
       \/ envelope.message = "Retrieved from cache"

\* C19: in a read with use_cache=True the cache probe comes before any live
\* request, and when the probe finds a fresh entry no live request is made and
\* the success envelope is marked as coming from the cache.
C19_ProbeBeforeLive ==
    (opname \in ReadOperations /\ use_cache) =>
        /\ outcomes # <<>> => probe # "none"
        /\ probe = "fresh" =>
              /\ outcomes = <<>>
              /\ Returned => CacheDerived

\* The three paths of a read that consults the cache, and the two of one that
\* does not
CachedPaths ==
    {<<"Start", "CacheHit", "Success">>,
     <<"Start", "CacheMiss", "Retrying", "Success">>,
     <<"Start", "CacheMiss", "Retrying", "Terminal", "Error">>}
BypassPaths ==
    {<<"Start", "Retrying", "Success">>,
     <<"Start", "Retrying", "Terminal", "Error">>}

\* Every stage of the path so far
Stages == {path[i] : i \in 1..Len(path)}

C31_FalsyRoundTrip ==
    (Returned /\ UsesCache /\ probe = "fresh") =>
        /\ envelope.success
        /\ envelope.data = cached
        /\ CacheDerived
        /\ "Retrying" \notin Stages
        /\ outcomes = <<>>

\* C34: when the live call of a read with use_cache=True ends in an error
\* envelope, the cache holds no entry for the key of the read (nothing was
\* written, and an expired entry was evicted by the probe).
C34_FailedReadNoEntry ==
    (Returned /\ UsesCache /\ ~envelope.success /\ "Retrying" \in Stages) =>
        /\ cache_key(opname, endpoint) \notin DOMAIN cache
        /\ cache_key(opname, endpoint) \notin DOMAIN timestamps

\* C35: a write (api_post, api_put, api_delete) leaves the cache store
\* exactly as it was unless it was called with invalidate_cache=True and its
\* upstream call succeeded: a write that ends in an error, on a terminal
\* fault or with the retries exhausted, and a write called with
\* invalidate_cache=False change nothing.
C35_FailedWriteKeeps ==
    [][(opname \in WriteOperations) =>
          \/ cache' = cache /\ timestamps' = timestamps
          \/ /\ use_cache
             /\ cpc = "retrying"
             /\ cpc' = "done"
             /\ envelope'.success]_vars

\* api_delete, asked to invalidate, has failed with its retries exhausted
\* and the entry an earlier read stored is still there
C35_Witness ==
    /\ Returned
    /\ opname = "api_delete"
    /\ use_cache
    /\ ~envelope.success
    /\ Len(outcomes) = DefaultMaxRetries
    /\ "GET:/users/1" \in DOMAIN cache

\* C36: a read called with use_cache=False never consults the cache: it goes
\* straight to the retry engine, where a live upstream call is made whenever
\* the engine makes an attempt (max_retries >= 1); it never returns
\* from_cache=true; and it leaves the store unchanged whether the call
\* succeeds or fails: an entry under its key, fresh or expired, is not read,
\* evicted or overwritten.
C36_Bypass ==
    /\ [][(opname \in ReadOperations /\ ~use_cache) =>
             cache' = cache /\ timestamps' = timestamps]_vars
    /\ []((opname \in ReadOperations /\ ~use_cache) =>
             /\ probe = "none"
             /\ cached = None
             /\ "CacheHit" \notin Stages /\ "CacheMiss" \notin Stages
             /\ Returned =>
                   /\ ~CacheDerived
                   /\ "from_cache" \in envelope.keys => ~envelope.from_cache
                   /\ (envelope.success \/ max_retries >= 1) => outcomes # <<>>)

\* A read that skipped the cache has succeeded with a body other than the
\* one stored under its key, and the stored entry, expired, is still there
C36_Witness ==
    /\ Returned
    /\ opname \in ReadOperations
    /\ ~use_cache
    /\ envelope.success
    /\ cache_key(opname, endpoint) \in DOMAIN cache
    /\ cache[cache_key(opname, endpoint)] # envelope.data
    /\ ttl > 0
    /\ now - timestamps[cache_key(opname, endpoint)] >= ttl

\* C36 as stated: a read with use_cache=False (on a server that is
\* configured) always performs a live upstream call, never returns
\* from_cache=true and leaves the store unchanged.
C36_AlwaysLive ==
    (Returned /\ opname \in ReadOperations /\ ~use_cache /\ api_base_url /\ api_key) =>
        /\ outcomes # <<>>
        /\ ~CacheDerived

\* C38: entered with max_retries <= 0, retry_with_backoff never invokes the
\* operation and never sleeps; it raises an error (no operation error was
\* kept, so it is the TypeError of `raise None`), and the operation that
\* called it returns an error envelope, never a success.
C38_EmptyRetryLoop ==
    /\ []((engine # None /\ max_retries <= 0) =>
             /\ outcomes = <<>>
             /\ sleeps = <<>>
             /\ attempt = 0
             /\ last_exception = NoException
             /\ pc \in {"after_loop", "done"}
             /\ pc = "done" => result = [kind |-> "raise", value |-> TypeError]
             /\ Returned =>
                   /\ ~envelope.success
                   /\ envelope.raised = None
                   /\ envelope.error # None)
    /\ [][(engine # None /\ max_retries <= 0 /\ pc = "after_loop" /\ pc' # pc) =>
             pc' = "done" /\ result'.kind = "raise"]_vars
    /\ (engine # None /\ max_retries <= 0 /\ pc = "after_loop") ~>
          (Returned /\ ~envelope.success)

\* api_post was called with Config.MAX_RETRIES = 0 and has returned an error
\* envelope without a request
C38_Witness ==
    /\ Returned
    /\ opname = "api_post"
    /\ engine # None
    /\ max_retries = 0
    /\ outcomes = <<>>
    /\ ~envelope.success
    /\ envelope.error = Str(TypeError)

-----------------------------------------------------------------------------
(* Properties of the batch operations *)

\* The batch operation has returned
BatchReturned == bpc = "done"

\* The items of the batch
Items == 1..Len(endpoints)

\* C12: whatever the order in which the items finish, results[i] is the
\* envelope of the i-th input endpoint, duplicates included, and the length of
\* results equals total equals the number of inputs.
C12_BatchAlignment ==
    BatchReturned =>
        /\ Len(batch.results) = Len(endpoints)
        /\ batch.total = Len(endpoints)
        /\ \A i \in Items :
              /\ batch.results[i] = tasks[i].envelope
              /\ batch.results[i].success => batch.results[i].data = Payload(endpoints[i])
              /\ "endpoint" \in batch.results[i].keys =>
                    batch.results[i].endpoint = endpoints[i]

\* Three items, the first and the last on the same endpoint, the last one
\* finishing first and the first one last
C12_Witness ==
    /\ BatchReturned
    /\ Len(endpoints) = 3
    /\ endpoints[1] = endpoints[3]
    /\ endpoints[1] # endpoints[2]
    /\ order = <<3, 2, 1>>
    /\ batch.results[3].success
    /\ ~batch.results[1].success

\* C13: successful is the number of envelopes of results with success true,
\* failed the number with success false, and their sum is total; for inputs
\* [A, B, C] where B fails and A and C succeed, results is [success, error,
\* success] with successful 2, failed 1 and total 3.
C13_BatchCounts ==
    BatchReturned =>
        /\ batch.successful = Cardinality({i \in Items : batch.results[i].success})
        /\ batch.failed = Cardinality({i \in Items : ~batch.results[i].success})
        /\ batch.successful + batch.failed = batch.total
        /\ (/\ Len(endpoints) = 3
            /\ tasks[1].outcome = "ok"
            /\ tasks[2].outcome \in {"timeout", "http"}
            /\ tasks[3].outcome = "ok") =>
              /\ batch.results[1].success
              /\ ~batch.results[2].success
              /\ batch.results[3].success
              /\ batch.successful = 2
              /\ batch.failed = 1
              /\ batch.total = 3

\* [A, B, C] with the request of B timed out and A and C answered 200
C13_Witness ==
    /\ BatchReturned
    /\ Len(endpoints) = 3
    /\ tasks[1].outcome = "ok"
    /\ tasks[2].outcome = "timeout"
    /\ tasks[3].outcome = "ok"
    /\ batch.successful = 2
    /\ batch.failed = 1
    /\ batch.total = 3

\* The request of item i failed for good
Failing(i) == tasks[i].outcome \in {"timeout", "http"}

\* The text the error envelope of a failing item carries
FaultText(i) ==
    IF tasks[i].outcome = "timeout" THEN "timeout failure" ELSE "HTTP 404"

\* An item has ended in an error in this step
EndsInError ==
    \E i \in DOMAIN tasks :
        /\ i \in DOMAIN tasks'
        /\ tasks[i].pc # "finished"
        /\ tasks'[i].pc = "finished"
        /\ ~tasks'[i].envelope.success

\* C14: whichever items fail, the batch returns its result dict; each failing
\* item has its own error envelope at its index, every item whose request
\* succeeded has the success envelope of its own endpoint (marked from_cache
\* only when another item of the same endpoint succeeded); a step of one item
\* changes no other item, and an item ending in error writes nothing into the
\* cache.
C14_FaultIsolation ==
    /\ [](BatchReturned =>
            /\ batch.raised = None
            /\ \A i \in Items :
                  /\ Failing(i) =>
                        /\ ~batch.results[i].success
                        /\ batch.results[i].error = FaultText(i)
                        /\ batch.results[i].endpoint = endpoints[i]
                        /\ "data" \notin batch.results[i].keys
                  /\ tasks[i].outcome = "ok" =>
                        /\ batch.results[i].success
                        /\ batch.results[i].data = Payload(endpoints[i])
                        /\ ~batch.results[i].from_cache
                  /\ batch.results[i].from_cache =>
                        \E j \in Items \ {i} :
                            endpoints[j] = endpoints[i] /\ tasks[j].outcome = "ok")
    /\ [][(bpc = "waiting" /\ bpc' = "waiting") =>
            /\ \A i \in DOMAIN tasks :
                  tasks'[i] # tasks[i] =>
                      \A j \in DOMAIN tasks \ {i} : tasks'[j] = tasks[j]
            /\ EndsInError =>
                  /\ DOMAIN cache' \subseteq DOMAIN cache
                  /\ \A k \in DOMAIN cache' :
                        cache'[k] = cache[k] /\ timestamps'[k] = timestamps[k]]_vars

\* The item that finished first failed after a retry, and a later one succeeded
C14_Witness ==
    /\ BatchReturned
    /\ template = "api_client"
    /\ Len(endpoints) = 2
    /\ tasks[order[1]].outcome = "timeout"
    /\ tasks[order[1]].max_retries = 2
    /\ tasks[order[2]].outcome = "ok"
    /\ batch.raised = None

\* C15: every item is launched before the dispatcher waits, the dispatcher
\* returns only when every item has finished, with an envelope for each, and a
\* batch whose requests and sleeps all complete does return.
C15_BatchCompletion ==
    /\ [](bpc = "waiting" => DOMAIN tasks = Items)
    /\ [](BatchReturned =>
            /\ \A i \in Items : tasks[i].pc = "finished"
            /\ Len(order) = Len(endpoints)
            /\ Len(batch.results) = Len(endpoints)
            /\ \A i \in Items : "success" \in batch.results[i].keys)
    /\ [][(bpc = "waiting" /\ bpc' = "done") =>
            \A i \in Items : tasks[i].pc = "finished"]_vars
    /\ (bpc = "waiting") ~> BatchReturned

\* A batch of three whose second item was the last to finish
C15_Witness ==
    /\ BatchReturned
    /\ Len(endpoints) = 3
    /\ order = <<1, 3, 2>>
    /\ Len(batch.results) = 3

-----------------------------------------------------------------------------
(* Properties of the server under concurrent calls *)

\* C26: in every state, however the calls of api_get, api_post, api_put,
\* api_delete and clear_cache interleave, the keys that hold a value are the
\* keys that hold a creation time, and cache_statistics reports as many
\* entries as there are keys.
C26_Bookkeeping ==
    /\ DOMAIN cache = DOMAIN timestamps
    /\ cache_statistics.entries = DOMAIN timestamps
    /\ cache_statistics.total_entries = Cardinality(DOMAIN timestamps)

\* While a write and a read are both in progress, the probe of the read has
\* just evicted one of two entries
C26_Witness ==
    /\ \E i, j \in DOMAIN tasks :
          /\ tasks[i].pc = "awaiting" /\ tasks[i].opname = "api_put"
          /\ tasks[j].pc = "awaiting" /\ tasks[j].opname = "api_get"
    /\ op.name = "get"
    /\ ret = None
    /\ op.before = 2
    /\ cache_statistics.total_entries = 1

\* C27: two reads of one key that run at the same time on a cold cache,
\* such as duplicate endpoints of one batch, do not both miss and both make
\* a live request.
C27_ExclusiveFetch ==
    \A i, j \in DOMAIN tasks :
        (/\ i # j
         /\ bpc = "waiting"
         /\ tasks[i].endpoint = tasks[j].endpoint
         /\ Probing(tasks[i])
         /\ Probing(tasks[j])) =>
            ~(tasks[i].pc = "awaiting" /\ tasks[j].pc = "awaiting")

\* C32: while the live fetch of a read is in flight, a write to the same
\* endpoint completes and invalidates the key; no later probe of the cache
\* answers with the body the read had fetched before the write was done.
C32_NoStaleWriteBack ==
    (op.name = "get" /\ IsHit(ret)) =>
        \A ep \in ToolEndpoints("api_get") : ret # Superseded(ep)

\* The first path segment of an endpoint: "users" for "/users/42" and for
\* "users/42", "" for "/"
FirstSegment(ep) ==
    LET p == IF SubSeq(ep, 1, 1) = "/" THEN SubSeq(ep, 2, Len(ep)) ELSE ep
        stop == IF Slash(p) = 0 THEN Len(p) ELSE Slash(p) - 1
    IN  SubSeq(p, 1, stop)

\* C37: a successful api_post with invalidation removes exactly the keys
\* that contain the first path segment of its endpoint, whatever the shape
\* of the endpoint: "users" for "users/42" as for "/users/42"; when that
\* segment is empty (the endpoint "/") nothing is removed.
C37_FirstSegmentPattern ==
    [][\A i \in DOMAIN tasks :
          (/\ tasks[i].pc = "awaiting"
           /\ tasks[i].opname = "api_post"
           /\ tasks[i].use_cache
           /\ tasks'[i].pc = "idle"
           /\ tasks'[i].outcome = "ok") =>
              LET seg == FirstSegment(tasks[i].endpoint) IN
              DOMAIN cache' =
                  {k \in DOMAIN cache : seg = "" \/ ~Contains(seg, k)}]_vars

\* The collection of a path: "/users" for "/users/42"
Collection(ep) == "/" \o SplitSecond(ep)

\* C28: when a write with invalidation (api_post, api_put, api_delete) to a
\* path under a collection returns its success, the cache holds no read
\* entry under that collection.
C28_WriteInvalidates ==
    [][\A i \in DOMAIN tasks :
          (/\ tasks[i].pc = "awaiting"
           /\ tasks[i].opname \in WriteOperations
           /\ tasks[i].use_cache
           /\ tasks'[i].pc = "idle"
           /\ tasks'[i].outcome = "ok") =>
              \A k \in DOMAIN cache' : ~Contains(Collection(tasks[i].endpoint), k)]_vars

-----------------------------------------------------------------------------
(* Properties of the client handle *)

\* The tools that hold a client: get_client has returned it to them
Holders == {i \in DOMAIN procs : procs[i].kind = "tool" /\ procs[i].pc = "requesting"}

\* C22: however the coroutines that take the client interleave, at most one
\* client is constructed between two resets of the handle, and every
\* get_client call between two resets returns that one client.
C22_SingleConstruction ==
    /\ \A a, b \in DOMAIN clients : clients[a].born = clients[b].born => a = b
    /\ \A i \in Holders :
          /\ procs[i].client \in DOMAIN clients
          /\ clients[procs[i].client].born = procs[i].epoch
    /\ \A i, j \in Holders :
          procs[i].epoch = procs[j].epoch => procs[i].client = procs[j].client
    /\ _instance # NoClient =>
          _instance \in DOMAIN clients /\ clients[_instance].born = resets

\* Two tools took the client at the same time, on first use, and hold the
\* one client that was constructed
C22_Witness ==
    /\ Holders = {1, 2}
    /\ procs[1].client = procs[2].client
    /\ procs[1].received = "open"
    /\ resets = 0
    /\ Len(clients) = 1
    /\ _instance = 1

\* The coroutines running cleanup
Cleanups == {i \in DOMAIN procs : procs[i].kind = "cleanup"}

\* C23: cleanup is safe in every state: called without a client it returns at
\* once, closes nothing and leaves the handle empty; called with a client it
\* closes that client and leaves the handle empty.
C23_CleanupSafe ==
    [][\A i \in Cleanups :
          /\ (Callable(i) /\ ~Callable(i)') =>
                /\ _instance # NoClient
                /\ procs'[i].client = _instance
                /\ clients'[_instance].closes = clients[_instance].closes + 1
                /\ clients'[_instance].state # "open"
          /\ (Callable(i) /\ procs'[i] # procs[i] /\ _instance = NoClient) =>
                /\ procs'[i].pc = "done"
                /\ clients' = clients
                /\ _instance' = NoClient
          /\ (procs[i].pc = "closing" /\ procs'[i].pc = "done") =>
                /\ clients'[procs[i].client].state = "closed"
                /\ _instance' = NoClient]_vars

\* cleanup has returned at once, a second time, from an empty handle whose
\* client an earlier cleanup closed
C23_Witness ==
    /\ \E i \in Cleanups : procs[i].pc = "done"
    /\ _instance = NoClient
    /\ resets = 1
    /\ Len(clients) = 1
    /\ clients[1].state = "closed"
    /\ clients[1].closes = 1
    /\ \A i \in DOMAIN procs : procs[i].pc \in {"idle", "done"}

\* C33: however cleanup, which is suspended while it closes the client and
\* resets the handle only afterwards, interleaves with get_client callers
\* and with another cleanup, no caller receives a client whose close has
\* begun, and no client is closed more than once.
C33_NoUseAfterClose ==
    /\ \A i \in DOMAIN procs :
          procs[i].kind = "tool" => procs[i].received \in {"none", "open"}
    /\ \A c \in DOMAIN clients : clients[c].closes <= 1

\* C24: without a base address get_client returns None and constructs
\* nothing, and fetch_from_api ends at once in an error envelope: the retry
\* engine is not entered, no request is made, and the cache is not written.
\* The same holds when get_client returns None for want of a credential.
C24_UnavailableTerminal ==
    /\ ~api_base_url =>
          /\ GetClientReturn = NoClient
          /\ GetClientHandle = _instance
          /\ GetClientClients = clients
    /\ (opname = "fetch_from_api" /\ ~(api_base_url /\ api_key)) =>
          /\ pc = "idle"
          /\ engine = None
          /\ outcomes = <<>>
          /\ cache = <<>> /\ timestamps = <<>>
          /\ clients = <<>> /\ _instance = NoClient
          /\ "Retrying" \notin Stages
          /\ Returned =>
                /\ ~envelope.success
                /\ envelope.raised = None
                /\ envelope.code \in {"API_NOT_CONFIGURED", "CLIENT_ERROR"}
                /\ ~api_base_url =>
                      envelope.code = "API_NOT_CONFIGURED" /\ path = <<"Start", "Error">>

\* fetch_from_api, asked to use the cache, has returned the error of a server
\* without a base address
C24_Witness ==
    /\ Returned
    /\ opname = "fetch_from_api"
    /\ use_cache
    /\ ~api_base_url
    /\ api_key
    /\ envelope.error = "API not configured"
    /\ now > 0

\* The tools get_client has returned to
Served ==
    {i \in DOMAIN procs :
        procs[i].kind = "tool" /\ procs[i].pc \in {"requesting", "unavailable"}}

\* C25: a missing credential alone does not make the client unavailable: with
\* a base address and no credential get_client constructs and returns a
\* client, and it is the request that fails.
C25_CredentialDeferred ==
    (api_base_url /\ ~api_key) =>
        /\ \A i \in Served : procs[i].pc = "requesting" /\ procs[i].client # NoClient
        /\ \A i \in DOMAIN procs : procs[i].outcome # "ok"

====
